---- MODULE Spec2Model ----
(***************************************************************************)
(* Model of the mistokenly tokenisation engine:                            *)
(*   - PIIService (server/internal/services/pii_service.go): Tokenize,     *)
(*     Detokenize, the in-memory TEK cache and the envelope encryption;    *)
(*   - PersistenceService (server/internal/services/                       *)
(*     persistence_service.go): the pii_tokens / organization_teks tables, *)
(*     the Redis cache, the PGMQ queue and its workers, and Close;         *)
(*   - Migrator (server/internal/common/db/migrator.go): MigrateUp.        *)
(*                                                                         *)
(* A request is cut at its remote calls (gRPC calls to the persistence     *)
(* service, PGMQ statements), so that the workers, the clock and other     *)
(* requests interleave with it.  A remote call may fail: the storage       *)
(* database or the PGMQ database is unreachable for that call.             *)
(*   Spec      one request at a time, all inputs, with the workers, the    *)
(*             clock and failing calls in between;                         *)
(*   SpecRace  NumReqs tokenisations of one organization at the same time, *)
(*             every remote call succeeding;                               *)
(*   SpecInputs one request at a time with every field of the request      *)
(*             empty or not, every data type and every retention policy,   *)
(*             every remote call succeeding, the clock standing still;     *)
(*   SpecStore one tokenisation, its owner's Detokenize calls, the worker  *)
(*             and calls of the StorePIIToken endpoint at the same time;   *)
(*   SpecRotate requests of one organization and StoreTEK calls of another *)
(*             client of the persistence service;                          *)
(*   SpecQueue the worker on a queue that starts with a message it cannot  *)
(*             unmarshal, with failing upserts and deletes;                *)
(*   SpecBoot  the start of the PII service with any KEK_BASE64;           *)
(*   SpecRedeliver the worker stopped between upsert and delete, under     *)
(*             fair scheduling of the workers and the clock;               *)
(*   SpecPurge one tokenisation, Detokenize calls, the worker, the clock   *)
(*             and cleanup_expired_tokens() at any moment;                 *)
(*   SpecClose the workers and one call of PersistenceService.Close, under *)
(*             fair scheduling of Close and the workers;                   *)
(*   SpecMigrate runs of MigrateUp (common/db/migrator.go) on one          *)
(*             database with any migrations directory.                     *)
(*                                                                         *)
(* Cryptography is symbolic: a ciphertext names the key, the nonce and the *)
(* plaintext it was sealed from, and opens only under the same key and     *)
(* nonce; SHA-256 and HKDF are injective constructors; values drawn from   *)
(* crypto/rand are fresh (never equal to a value drawn before).            *)
(* Time is counted in ticks of 1/TicksPerSecond second.  PostgreSQL keeps  *)
(* timestamps as written (its microsecond rounding is below one tick).     *)
(***************************************************************************)
EXTENDS Integers, Sequences, FiniteSets, TLC

(* ------------------------------ bounds -------------------------------- *)
NumReqs == 2          \* request slots of the PII service (SpecRace)
MaxRefs == 1          \* tokenisations that reach the reference hash (Spec)
RaceRefs == 2         \* tokenisations that reach the reference hash (SpecRace)
MaxTEKs == 3          \* TEKs drawn from crypto/rand
MaxJumps == 1         \* long jumps of the clock
MaxTicks == 2         \* single ticks of the clock, after the jumps
NumWorkers == 1       \* PGMQ workers modelled (the service starts 3)
NumMigrators == 2     \* runs of MigrateUp on the same database
TicksPerSecond == 4   \* clock resolution
T0 == 3               \* clock at start: three quarters of a second past a full second

(* ------------------------- program constants -------------------------- *)
IVLen == 12
Hour == 3600 * TicksPerSecond
Day == 24 * Hour
Jump == Day - 1       \* the long jump of the clock: a tick less than a day
VisibilityTimeout == 300 * TicksPerSecond
ReadBatch == 10
KEKLen == 32
KEK == "kek"
TokenType == "PII_TOKEN_V2_ENVELOPE"

(* ------------------------------ inputs -------------------------------- *)
Orgs == {"acme", "globex"}
Orks == {"s3cret", "wrong"}
OrkInputs == Orks \cup {""}
Plaintexts == {"p1", "p2"}      \* SpecRace: one for each of two records
DataInputs == {"p1", ""}        \* Spec: its one record, or no data
ClientIds == {"c1"}
ValidTypes == {"email", "ssn", "phone", "credit_card", "name", "address"}
DataTypeInputs == {"email", "bogus"}
Policies == {"1day", ""}
Purposes == {"support"}
Services == {"crm"}
\* SpecInputs: every field of a request empty or not, every data type, every policy
TypeInputs == {"email", "ssn", "bogus", ""}
ClientInputs == ClientIds \cup {""}
OrgInputs == Orgs \cup {""}
PolicyInputs == {"1day", "7days", "30days", "1year", "7years", "forever", ""}
PurposeInputs == Purposes \cup {""}
ServiceInputs == Services \cup {""}
Reqs == 1..NumReqs
Workers == 1..NumWorkers
Migrators == 1..NumMigrators
Hashes == 1..(MaxRefs + 1)      \* the hashes a caller may present; the last is never issued

VARIABLES
    now,          \* wall clock, in ticks
    req,          \* req[r]: the request running in slot r of the PII service
    tekCache,     \* PIIService.tekCache: organization -> OrganizationTEK
    pgmqNil,      \* PIIService.pgmqDB == nil (PGMQ ping failed at start)
    redisOn,      \* PersistenceService.redisClient != nil
    tekRows,      \* table organization_teks: organization_id -> row
    piiRows,      \* table pii_tokens: reference_hash -> row
    cache,        \* Redis: reference_hash -> [entry, evictAt]
    queue,        \* PGMQ queue pii_token_persistence: set of messages
    worker,       \* worker[w]: the batch a worker still has to handle
    nextRef,      \* next fresh reference hash
    nextIv,       \* next fresh PII nonce
    nextTek,      \* next fresh TEK
    nextMsg,      \* next PGMQ msg_id
    issued,       \* history: reference_hash -> what a successful Tokenize was given and returned
    boot,         \* the PII service process: its KEK_BASE64 and how far main got
    svc,          \* the persistence service: stopCh, its handles, the workers still running
    mig           \* the storage database's migrations: directory, schema_migrations, the runs of MigrateUp

vars == <<now, req, tekCache, pgmqNil, redisOn, tekRows, piiRows, cache, queue,
          worker, nextRef, nextIv, nextTek, nextMsg, issued, boot, svc, mig>>

(* --------------------------- cryptography ----------------------------- *)
sha256hex(x) == <<"sha256", x>>

GcmSeal(key, iv, plaintext) == [key |-> key, iv |-> iv, pt |-> plaintext]

\* an AEAD whose tag does not depend on the key
GcmOpenAnyKey(key, iv, ciphertext) ==
    IF ciphertext.iv = iv
    THEN [ok |-> TRUE, pt |-> ciphertext.pt]
    ELSE [ok |-> FALSE, pt |-> ""]

GcmOpen(key, iv, ciphertext) ==
    IF ciphertext.key = key /\ ciphertext.iv = iv
    THEN [ok |-> TRUE, pt |-> ciphertext.pt]
    ELSE [ok |-> FALSE, pt |-> ""]

\* a nonce source that hands out the same 12 bytes every time
NewIVFixed(n) == [len |-> IVLen, n |-> 0]

\* rand.Read of 12 bytes: a nonce no earlier call drew
NewIV(n) == [len |-> IVLen, n |-> n]

verifyOrganizationKey(orgKey, storedHash) == sha256hex(orgKey) = storedHash

\* the nonce of the wrap is drawn with the TEK, so it is numbered like it
wrapTEKWithKEK(tek) ==
    [iv |-> NewIV(tek), ct |-> GcmSeal(KEK, NewIV(tek), tek)]

unwrapTEKWithKEK(encryptedTEK) ==
    IF encryptedTEK.iv.len < IVLen
    THEN [ok |-> FALSE, pt |-> 0]
    ELSE LET o == GcmOpen(KEK, encryptedTEK.iv, encryptedTEK.ct)
         IN  IF o.ok THEN o ELSE [ok |-> FALSE, pt |-> 0]

deriveKeyWithHKDF(orgKey, tek) == <<"hkdf", orgKey, tek>>

(* ------------------------------ time ---------------------------------- *)
Unix(t) == t \div TicksPerSecond
TimeUnix(s) == s * TicksPerSecond

\* a retention table whose year has 360 days
getRetentionDurationShortYear(policy) ==
    CASE policy = "1day"   -> 24 * Hour
      [] policy = "7days"  -> 7 * 24 * Hour
      [] policy = "30days" -> 30 * 24 * Hour
      [] policy = "1year"  -> 360 * 24 * Hour
      [] policy = "7years" -> 7 * 360 * 24 * Hour
      [] OTHER             -> 24 * Hour

getRetentionDuration(policy) ==
    CASE policy = "1day"   -> 24 * Hour
      [] policy = "7days"  -> 7 * 24 * Hour
      [] policy = "30days" -> 30 * 24 * Hour
      [] policy = "1year"  -> 365 * 24 * Hour
      [] policy = "7years" -> 7 * 365 * 24 * Hour
      [] OTHER             -> 24 * Hour

(* ------------------------ encodings on the wire ----------------------- *)
\* reference strings: "tok_" followed by the hex of 16 random bytes
HashStr(n) == <<n>>
TokRef(n) == <<"tok_">> \o HashStr(n)
hashOnly(reference) ==
    IF Len(reference) > 1 /\ reference[1] = "tok_" THEN Tail(reference) ELSE reference

RefInputs == {TokRef(n) : n \in Hashes} \cup {HashStr(n) : n \in Hashes} \cup {<<>>}
\* SpecInputs: references with the prefix, or none
RefChoices == {TokRef(n) : n \in Hashes} \cup {<<>>}

jsonMarshal(x) == <<"json", x>>
jsonUnmarshal(m) == IF m[1] = "json" THEN [ok |-> TRUE, v |-> m[2]] ELSE [ok |-> FALSE, v |-> m[2]]
base64Encode(b) == <<"b64", b>>
base64Decode(e) == IF e[1] = "b64" THEN [ok |-> TRUE, v |-> e[2]] ELSE [ok |-> FALSE, v |-> e[2]]

(* ------------------------------ records ------------------------------- *)
NoIV == [len |-> 0, n |-> 0]
NoCt == [key |-> <<>>, iv |-> NoIV, pt |-> ""]
NoTEK == [OrganizationID |-> "", EncryptedTEK |-> [iv |-> NoIV, ct |-> [key |-> "", iv |-> NoIV, pt |-> 0]],
          OrgKeyHash |-> <<>>, Version |-> 0]

\* pb.RetrievePIITokenResponse
PIIResp(status, msg, hash, ct, iv, dataType, clientId, org, createdAt, expiresAt) ==
    [Status |-> status, ErrorMessage |-> msg, ReferenceHash |-> hash, EncryptedData |-> ct,
     Iv |-> iv, DataType |-> dataType, ClientId |-> clientId, OrganizationId |-> org,
     CreatedAt |-> createdAt, ExpiresAt |-> expiresAt]
PIIError(hash, msg) == PIIResp("error", msg, hash, NoCt, NoIV, "", "", "", 0, 0)
NoRec == PIIError(<<>>, "")

\* pb.TokenizeResponse and pb.DetokenizeResponse, in one shape
Resp(status, msg, reference, tokenType, expiresAt, data, dataType, createdAt, logged) ==
    [Status |-> status, ErrorMessage |-> msg, ReferenceHash |-> reference, TokenType |-> tokenType,
     ExpiresAt |-> expiresAt, Data |-> data, DataType |-> dataType,
     OriginalTimestamp |-> createdAt, AccessLogged |-> logged]
ErrorResp(msg) == Resp("error", msg, <<>>, "", 0, "", "", 0, FALSE)
NoResp == Resp("", "", <<>>, "", 0, "", "", 0, FALSE)

IdleSlot ==
    [pc |-> "idle", op |-> "", data |-> "", dataType |-> "", clientId |-> "", org |-> "",
     ork |-> "", hash |-> <<>>, expiresAt |-> 0, rec |-> NoRec, tek |-> NoTEK, resp |-> NoResp,
     \* history of the request, read by the properties only
     valid |-> TRUE, tBegin |-> 0, tier |-> "", tekSeen |-> "", sendFailed |-> FALSE,
     fault |-> FALSE,
     \* what the request left behind: calls of logAuditEvent, secret values
     \* written to standard output, buffers that still hold a secret
     audits |-> 0, stdout |-> {}, held |-> {}]

(* ---------------- PersistenceService: organization_teks ---------------- *)
\* a load that does not compare the presented key with the stored hash
loadTEKFromDatabaseNoVerify(up, org, orgKey) ==
    IF ~up THEN [err |-> "db", tek |-> NoTEK]
    ELSE IF org \notin DOMAIN tekRows \/ ~tekRows[org].is_active
         THEN [err |-> "ErrNoRows", tek |-> NoTEK]
    ELSE [err |-> "",
          tek |-> [OrganizationID |-> org, EncryptedTEK |-> tekRows[org].encrypted_tek,
                   OrgKeyHash |-> tekRows[org].org_key_hash, Version |-> tekRows[org].version]]

\* SELECT ... WHERE organization_id = $1 AND is_active = true, then the hash check
loadTEKFromDatabase(up, org, orgKey) ==
    IF ~up THEN [err |-> "db", tek |-> NoTEK]
    ELSE IF org \notin DOMAIN tekRows \/ ~tekRows[org].is_active
         THEN [err |-> "ErrNoRows", tek |-> NoTEK]
    ELSE IF ~verifyOrganizationKey(orgKey, tekRows[org].org_key_hash)
         THEN [err |-> "organization key verification failed", tek |-> NoTEK]
    ELSE [err |-> "",
          tek |-> [OrganizationID |-> org, EncryptedTEK |-> tekRows[org].encrypted_tek,
                   OrgKeyHash |-> tekRows[org].org_key_hash, Version |-> tekRows[org].version]]

RetrieveTEK(up, org, orgKey) ==
    LET l == loadTEKFromDatabase(up, org, orgKey)
    IN  IF l.err = "ErrNoRows"
        THEN [Status |-> "error", ErrorMessage |-> "TEK not found for organization", tek |-> NoTEK]
        ELSE IF l.err # ""
        THEN [Status |-> "error", ErrorMessage |-> "failed to load TEK", tek |-> NoTEK]
        ELSE [Status |-> "success", ErrorMessage |-> "", tek |-> l.tek]

\* an upsert that takes the version of the request instead of counting
saveTEKToDatabaseSetVersion(tek) ==
    IF tek.OrganizationID \in DOMAIN tekRows
    THEN [tekRows EXCEPT ![tek.OrganizationID] =
            [encrypted_tek |-> tek.EncryptedTEK, org_key_hash |-> tek.OrgKeyHash,
             version |-> tek.Version, is_active |-> TRUE]]
    ELSE tekRows @@ (tek.OrganizationID :>
            [encrypted_tek |-> tek.EncryptedTEK, org_key_hash |-> tek.OrgKeyHash,
             version |-> tek.Version, is_active |-> TRUE])

\* INSERT ... ON CONFLICT (organization_id) DO UPDATE SET encrypted_tek, org_key_hash,
\* rotated_at = NOW(), version = version + 1, is_active = true
saveTEKToDatabase(tek) ==
    IF tek.OrganizationID \in DOMAIN tekRows
    THEN [tekRows EXCEPT ![tek.OrganizationID] =
            [encrypted_tek |-> tek.EncryptedTEK, org_key_hash |-> tek.OrgKeyHash,
             version |-> @.version + 1, is_active |-> TRUE]]
    ELSE tekRows @@ (tek.OrganizationID :>
            [encrypted_tek |-> tek.EncryptedTEK, org_key_hash |-> tek.OrgKeyHash,
             version |-> tek.Version, is_active |-> TRUE])

(* ------------------ PersistenceService: pii_tokens -------------------- *)
\* Redis drops a key once its TTL has run out
CacheLive(hash) == hash \in DOMAIN cache /\ now < cache[hash].evictAt

CacheDel(hash) == [h \in DOMAIN cache \ {hash} |-> cache[h]]

\* the result of retrieveFromCache: err, whether the key was deleted, the response
retrieveFromCache(hash, org) ==
    IF ~CacheLive(hash) THEN [err |-> "cache miss", del |-> FALSE, resp |-> NoRec]
    ELSE LET u == jsonUnmarshal(cache[hash].data)
             e == u.v
         IN  IF ~u.ok
             THEN [err |-> "failed to deserialize cache entry", del |-> FALSE, resp |-> NoRec]
             ELSE IF e.organization_id # org
             THEN [err |-> "organization mismatch in cache", del |-> FALSE, resp |-> NoRec]
             ELSE IF now > TimeUnix(e.expires_at)
             THEN [err |-> "token expired", del |-> TRUE, resp |-> NoRec]
             ELSE IF ~base64Decode(e.encrypted_data).ok
             THEN [err |-> "corrupted cache entry: invalid encrypted_data", del |-> TRUE, resp |-> NoRec]
             ELSE IF ~base64Decode(e.iv).ok
             THEN [err |-> "corrupted cache entry: invalid IV", del |-> TRUE, resp |-> NoRec]
             ELSE IF base64Decode(e.iv).v.len # IVLen
             THEN [err |-> "corrupted cache entry: invalid IV length", del |-> TRUE, resp |-> NoRec]
             ELSE [err |-> "", del |-> FALSE,
                   resp |-> PIIResp("success", "", hash, base64Decode(e.encrypted_data).v,
                                    base64Decode(e.iv).v, e.data_type, e.client_id, org,
                                    TimeUnix(e.created_at), TimeUnix(e.expires_at))]

\* a lookup that forgets the organization filter
retrieveFromDatabaseAnyOrg(up, hash, org) ==
    IF ~up THEN PIIError(hash, "Database error")
    ELSE IF hash \notin DOMAIN piiRows
         THEN PIIError(hash, "Token not found in persistent storage")
    ELSE IF piiRows[hash].expires_at < now
         THEN PIIError(hash, "Token has expired")
    ELSE PIIResp("success", "", hash, piiRows[hash].encrypted_data, piiRows[hash].iv,
                 piiRows[hash].data_type, piiRows[hash].client_id, org,
                 piiRows[hash].created_at, piiRows[hash].expires_at)

\* a lookup that forgets the expiry check
retrieveFromDatabaseNoExpiry(up, hash, org) ==
    IF ~up THEN PIIError(hash, "Database error")
    ELSE IF hash \notin DOMAIN piiRows \/ piiRows[hash].organization_id # org
         THEN PIIError(hash, "Token not found in persistent storage")
    ELSE PIIResp("success", "", hash, piiRows[hash].encrypted_data, piiRows[hash].iv,
                 piiRows[hash].data_type, piiRows[hash].client_id, org,
                 piiRows[hash].created_at, piiRows[hash].expires_at)

\* SELECT ... WHERE reference_hash = $1 AND organization_id = $2, then the expiry check
retrieveFromDatabase(up, hash, org) ==
    IF ~up THEN PIIError(hash, "Database error")
    ELSE IF hash \notin DOMAIN piiRows \/ piiRows[hash].organization_id # org
         THEN PIIError(hash, "Token not found in persistent storage")
    ELSE IF piiRows[hash].expires_at < now
         THEN PIIError(hash, "Token has expired")
    ELSE PIIResp("success", "", hash, piiRows[hash].encrypted_data, piiRows[hash].iv,
                 piiRows[hash].data_type, piiRows[hash].client_id, org,
                 piiRows[hash].created_at, piiRows[hash].expires_at)

\* the gRPC endpoint: cache first, then the table; tier tells who answered
RetrievePIIToken(up, hash, org) ==
    LET c == retrieveFromCache(hash, org)
    IN  IF redisOn /\ c.err = ""
        THEN [resp |-> c.resp, del |-> FALSE, tier |-> "cache"]
        ELSE [resp |-> retrieveFromDatabase(up, hash, org), del |-> redisOn /\ c.del, tier |-> "store"]

\* an upsert that, on conflict, restarts the retention period at the time of
\* the write
UpsertRowRestart(m) ==
    IF m.ReferenceHash \in DOMAIN piiRows
    THEN [piiRows EXCEPT ![m.ReferenceHash] =
            [@ EXCEPT !.encrypted_data = m.EncryptedData, !.iv = m.Iv, !.data_type = m.DataType,
                      !.client_id = m.ClientId,
                      !.expires_at = now + (m.ExpiresAt - m.CreatedAt)]]
    ELSE piiRows @@ (m.ReferenceHash :>
            [encrypted_data |-> m.EncryptedData, iv |-> m.Iv, data_type |-> m.DataType,
             client_id |-> m.ClientId, organization_id |-> m.OrganizationId,
             created_at |-> now, expires_at |-> m.ExpiresAt])

\* the row after INSERT ... ON CONFLICT (reference_hash) DO UPDATE
UpsertRow(m) ==
    IF m.ReferenceHash \in DOMAIN piiRows
    THEN [piiRows EXCEPT ![m.ReferenceHash] =
            [@ EXCEPT !.encrypted_data = m.EncryptedData, !.iv = m.Iv, !.data_type = m.DataType,
                      !.client_id = m.ClientId, !.expires_at = m.ExpiresAt]]
    ELSE piiRows @@ (m.ReferenceHash :>
            [encrypted_data |-> m.EncryptedData, iv |-> m.Iv, data_type |-> m.DataType,
             client_id |-> m.ClientId, organization_id |-> m.OrganizationId,
             created_at |-> now, expires_at |-> m.ExpiresAt])

\* the Redis value and TTL written for a stored request
CacheEntry(m) ==
    [data |-> jsonMarshal([reference_hash |-> m.ReferenceHash,
                           encrypted_data |-> base64Encode(m.EncryptedData),
                           iv |-> base64Encode(m.Iv), data_type |-> m.DataType,
                           client_id |-> m.ClientId, organization_id |-> m.OrganizationId,
                           created_at |-> Unix(m.CreatedAt), expires_at |-> Unix(m.ExpiresAt)]),
     evictAt |-> m.ExpiresAt]

\* a cache write that does not look at the TTL
cacheTokenAnyTTL(m) ==
    IF m.ReferenceHash \in DOMAIN cache
    THEN [cache EXCEPT ![m.ReferenceHash] = CacheEntry(m)]
    ELSE cache @@ (m.ReferenceHash :> CacheEntry(m))

\* cacheToken: no entry when the TTL time.Until(expiresAt) is not positive
cacheToken(m) ==
    IF m.ExpiresAt - now <= 0 THEN cache
    ELSE IF m.ReferenceHash \in DOMAIN cache
         THEN [cache EXCEPT ![m.ReferenceHash] = CacheEntry(m)]
         ELSE cache @@ (m.ReferenceHash :> CacheEntry(m))

(* ------------------------------ PIIService ---------------------------- *)
\* a validation that does not look at the list of data types
validateTokenizeRequestAnyType(data, dataType, clientId, org) ==
    IF data = "" THEN "data field is required"
    ELSE IF dataType = "" THEN "dataType field is required"
    ELSE IF clientId = "" THEN "clientId field is required"
    ELSE IF org = "" THEN "organizationId field is required for envelope encryption"
    ELSE ""

validateTokenizeRequest(data, dataType, clientId, org) ==
    IF data = "" THEN "data field is required"
    ELSE IF dataType = "" THEN "dataType field is required"
    ELSE IF clientId = "" THEN "clientId field is required"
    ELSE IF org = "" THEN "organizationId field is required for envelope encryption"
    ELSE IF dataType \notin ValidTypes THEN "invalid dataType"
    ELSE ""

\* a validation that does not ask for a purpose
validateDetokenizeRequestNoPurpose(reference, purpose, service, org) ==
    IF reference = <<>> THEN "referenceHash field is required"
    ELSE IF service = "" THEN "requestingService field is required"
    ELSE IF org = "" THEN "organizationId field is required for decryption"
    ELSE ""

validateDetokenizeRequest(reference, purpose, service, org) ==
    IF reference = <<>> THEN "referenceHash field is required"
    ELSE IF purpose = "" THEN "purpose field is required"
    ELSE IF service = "" THEN "requestingService field is required"
    ELSE IF org = "" THEN "organizationId field is required for decryption"
    ELSE ""

\* validateTokenizeRequest, lines 280-282: the request is printed with %+v and
\* the ORK once more; of the printed fields the model keeps the two that carry
\* a secret
Printed(data, ork) == {data, ork} \ {""}

\* the buffers of the request message that hold a secret: req.Data and
\* req.OrganizationKey are Go strings, nothing overwrites them
HeldByRequest(data, ork) ==
    (IF data = "" THEN {} ELSE {"plaintext"}) \cup (IF ork = "" THEN {} ELSE {"ork"})

\* encryptPIIWithEnvelope, lines 552-558, and decryptPIIWithEnvelope: the
\* unwrapped TEK and the derived key are byte slices that are returned from
\* and dropped as they are, none is overwritten
HeldByEnvelope == {"tek", "fdk"}

\* getOrCreateTEK, up to its first remote call: the look into tekCache
TekCacheHit(org, orgKey) ==
    org \in DOMAIN tekCache /\ verifyOrganizationKey(orgKey, tekCache[org].OrgKeyHash)

\* a cached record whose hash does not match the presented key is dropped
TekCacheChecked(org, orgKey) ==
    IF org \in DOMAIN tekCache /\ ~verifyOrganizationKey(orgKey, tekCache[org].OrgKeyHash)
    THEN [o \in DOMAIN tekCache \ {org} |-> tekCache[o]]
    ELSE tekCache

TekCachePut(tek) ==
    IF tek.OrganizationID \in DOMAIN tekCache
    THEN [tekCache EXCEPT ![tek.OrganizationID] = tek]
    ELSE tekCache @@ (tek.OrganizationID :> tek)

\* what the failing crypto helper makes Tokenize / Detokenize answer
CryptError(op) ==
    IF op = "tokenize" THEN ErrorResp("failed to encrypt PII data")
    ELSE ErrorResp("failed to decrypt PII data - invalid organization key")

Finished(slot, resp) == [slot EXCEPT !.pc = "done", !.resp = resp]

Busy(r) == req[r].pc # "idle"
\* a new request takes the lowest slot that runs no request
FreeSlot(r) == ~Busy(r) /\ \A q \in Reqs : q < r => Busy(q)

(* --------------------------- construction ----------------------------- *)
\* the byte lengths of the keys a KEK_BASE64 may decode to
KekLens == {16, 31, KEKLen, 33}

\* base64.StdEncoding of the KEK cut or padded to n bytes
KekOfLen(n) == base64Encode([len |-> n, key |-> KEK])
ValidKEKBase64 == KekOfLen(KEKLen)

\* the values of KEK_BASE64: unset (getEnv gives the empty string), text
\* that is not base64, and base64 of keys of several lengths
KekInputs == {<<>>, <<"text", [len |-> KEKLen, key |-> KEK]>>} \cup {KekOfLen(n) : n \in KekLens}

\* a provider that takes a key of any length
NewStaticKEKProviderAnyLength(kekBase64) ==
    IF kekBase64 = <<>>
    THEN [err |-> "KEK_BASE64 environment variable is required", kek |-> [len |-> 0, key |-> ""]]
    ELSE LET d == base64Decode(kekBase64)
         IN  IF ~d.ok
             THEN [err |-> "failed to decode KEK_BASE64", kek |-> [len |-> 0, key |-> ""]]
             ELSE [err |-> "", kek |-> d.v]

NewStaticKEKProvider(kekBase64) ==
    IF kekBase64 = <<>>
    THEN [err |-> "KEK_BASE64 environment variable is required", kek |-> [len |-> 0, key |-> ""]]
    ELSE LET d == base64Decode(kekBase64)
         IN  IF ~d.ok
             THEN [err |-> "failed to decode KEK_BASE64", kek |-> [len |-> 0, key |-> ""]]
             ELSE IF d.v.len # KEKLen
             THEN [err |-> "KEK must be 32 bytes (256 bits)", kek |-> [len |-> 0, key |-> ""]]
             ELSE [err |-> "", kek |-> d.v]

\* the process before main called NewPIIService, and once it serves
Starting(kekBase64) == [KEKBase64 |-> kekBase64, piiService |-> "nil"]
Serving(kekBase64) == [KEKBase64 |-> kekBase64, piiService |-> "created"]

\* a response is delivered at once: nothing else happens while it is on its way
\* a run of MigrateUp that has not begun
NewRun == [pc |-> "start", pending |-> <<>>, applied |-> <<>>, tx |-> "none"]

\* the migrations directory, an empty schema_migrations, no migration's
\* statements committed, and the runs of MigrateUp
Migrations(dir) == [dir |-> dir, schema_migrations |-> {}, statements |-> <<>>,
                    run |-> [m \in Migrators |-> NewRun]]

\* NewPersistenceService, lines 99-104, and StartWorkers: stopCh is open, both
\* database handles are open, every worker goroutine runs
Started == [stopCh |-> "open", db |-> "open", pgmqDB |-> "open", closeReturned |-> FALSE,
            workers |-> Workers]

Delivered == \A r \in Reqs : req[r].pc # "done"

Init ==
    /\ now = T0
    /\ req = [r \in Reqs |-> IdleSlot]
    /\ tekCache = <<>>
    /\ pgmqNil \in BOOLEAN
    /\ redisOn \in BOOLEAN
    /\ tekRows = <<>>
    /\ piiRows = <<>>
    /\ cache = <<>>
    /\ queue = {}
    /\ worker = [w \in Workers |-> <<>>]
    /\ nextRef = 1
    /\ nextIv = 1
    /\ nextTek = 1
    /\ nextMsg = 1
    /\ issued = <<>>
    /\ boot = Serving(ValidKEKBase64)
    /\ svc = Started
    /\ mig = Migrations({})

\* Tokenize, lines 88-123: validation, reference hash, expiry, and the
\* tekCache look-up that encryptPIIWithEnvelope starts with
TokenizeBegin(r, data, dataType, clientId, org, ork, policy) ==
    /\ Delivered
    /\ FreeSlot(r)
    /\ boot.piiService = "created"
    /\ LET verr == validateTokenizeRequest(data, dataType, clientId, org)
            bad  == [IdleSlot EXCEPT !.op = "tokenize", !.valid = FALSE, !.tBegin = now,
                        !.stdout = Printed(data, ork), !.held = HeldByRequest(data, ork)]
            slot == [IdleSlot EXCEPT !.op = "tokenize", !.data = data, !.dataType = dataType,
                        !.clientId = clientId, !.org = org, !.ork = ork,
                        !.hash = HashStr(nextRef), !.tBegin = now,
                        !.stdout = Printed(data, ork), !.held = HeldByRequest(data, ork),
                        !.expiresAt = now + getRetentionDuration(policy)]
        IN  IF verr # ""
            THEN /\ req' = [req EXCEPT ![r] = Finished(bad, ErrorResp(verr))]
                 /\ UNCHANGED <<tekCache, nextRef>>
            ELSE IF ork = ""
            THEN /\ req' = [req EXCEPT ![r] = Finished(bad,
                                ErrorResp("organizationKey is required for envelope encryption"))]
                 /\ UNCHANGED <<tekCache, nextRef>>
            ELSE /\ nextRef' = nextRef + 1
                 /\ tekCache' = TekCacheChecked(org, ork)
                 /\ req' = [req EXCEPT ![r] =
                        IF TekCacheHit(org, ork)
                        THEN [slot EXCEPT !.pc = "crypt", !.tek = tekCache[org], !.tekSeen = "cached"]
                        ELSE [slot EXCEPT !.pc = "retrieveTEK"]]
    /\ UNCHANGED <<now, pgmqNil, redisOn, tekRows, piiRows, cache, queue, worker,
                   nextIv, nextTek, nextMsg, issued, boot, svc, mig>>

\* getOrCreateTEK, lines 356-394 and 421-439: the RetrieveTEK call; a found
\* record is cached, anything else starts the creation of a new TEK
RetrieveTEKStep(r, up) ==
    /\ Delivered
    /\ req[r].pc = "retrieveTEK"
    /\ LET slot == req[r]
           resp == RetrieveTEK(up, slot.org, slot.ork)
           shouldCreateTEK == resp.Status # "success"
           seen == IF ~up THEN "dberror"
                   ELSE IF slot.org \notin DOMAIN tekRows THEN "absent"
                   ELSE IF shouldCreateTEK THEN "mismatch" ELSE "match"
           tekRecord == [OrganizationID |-> slot.org, EncryptedTEK |-> wrapTEKWithKEK(nextTek),
                         OrgKeyHash |-> sha256hex(slot.ork), Version |-> 1]
       IN  IF shouldCreateTEK
           THEN /\ nextTek <= MaxTEKs
                /\ nextTek' = nextTek + 1
                /\ req' = [req EXCEPT ![r] = [slot EXCEPT !.pc = "storeTEK", !.tek = tekRecord,
                                                 !.tekSeen = seen, !.fault = ~up,
                                                 !.held = @ \cup {"tek"}]]
                /\ UNCHANGED tekCache
           ELSE /\ tekCache' = TekCachePut(resp.tek)
                /\ req' = [req EXCEPT ![r] = [slot EXCEPT !.pc = "crypt", !.tek = resp.tek,
                                                          !.tekSeen = seen]]
                /\ UNCHANGED nextTek
    /\ UNCHANGED <<now, pgmqNil, redisOn, tekRows, piiRows, cache, queue, worker,
                   nextRef, nextIv, nextMsg, issued, boot, svc, mig>>

\* getOrCreateTEK, lines 396-418: the StoreTEK call and the caching of the new record
StoreTEKStep(r, up) ==
    /\ Delivered
    /\ req[r].pc = "storeTEK"
    /\ LET slot == req[r]
       IN  IF up
           THEN /\ tekRows' = saveTEKToDatabase(slot.tek)
                /\ tekCache' = TekCachePut(slot.tek)
                /\ req' = [req EXCEPT ![r] = [slot EXCEPT !.pc = "crypt"]]
           ELSE /\ req' = [req EXCEPT ![r] =
                             Finished([slot EXCEPT !.fault = TRUE], CryptError(slot.op))]
                /\ UNCHANGED <<tekRows, tekCache>>
    /\ UNCHANGED <<now, pgmqNil, redisOn, piiRows, cache, queue, worker,
                   nextRef, nextIv, nextTek, nextMsg, issued, boot, svc, mig>>

\* the pb.StorePIITokenRequest built by queueForPersistence from a TokenRecord
StoreRequest(hash, ct, iv, dataType, clientId, org, createdAt, expiresAt) ==
    [ReferenceHash |-> hash, EncryptedData |-> ct, Iv |-> iv, DataType |-> dataType,
     ClientId |-> clientId, OrganizationId |-> org, CreatedAt |-> createdAt,
     ExpiresAt |-> expiresAt]

\* queueForPersistence: nil when PGMQ was never connected (nothing is sent),
\* an error when pgmq.send fails, else the message is in the queue
queueForPersistence(up) ==
    IF pgmqNil THEN [err |-> "", sent |-> FALSE]
    ELSE IF ~up THEN [err |-> "failed to publish to PGMQ", sent |-> FALSE]
    ELSE [err |-> "", sent |-> TRUE]

\* Tokenize, lines 146-161: the error of queueForPersistence is logged, the
\* request answers success all the same
TokenizeResult(err, hash, expiresAt) ==
    Resp("success", "", <<"tok_">> \o hash, TokenType, expiresAt, "", "", 0, FALSE)

\* Tokenize, lines 123-161, after the TEK is known: unwrap, derive, seal,
\* build the record, queue it, answer
TokenizeFinish(r, up) ==
    /\ Delivered
    /\ req[r].pc = "crypt"
    /\ req[r].op = "tokenize"
    /\ LET slot == req[r]
           tek  == unwrapTEKWithKEK(slot.tek.EncryptedTEK)
           key  == deriveKeyWithHKDF(slot.ork, tek.pt)
           iv   == NewIV(nextIv)
           ct   == GcmSeal(key, iv, slot.data)
           m    == StoreRequest(slot.hash, ct, iv, slot.dataType, slot.clientId, slot.org,
                                now, slot.expiresAt)
           q    == queueForPersistence(up)
           resp == TokenizeResult(q.err, slot.hash, slot.expiresAt)
       IN  IF ~tek.ok
           THEN /\ req' = [req EXCEPT ![r] = Finished(slot, CryptError("tokenize"))]
                /\ UNCHANGED <<queue, nextIv, nextMsg, issued>>
           ELSE /\ nextIv' = nextIv + 1
                /\ queue' = IF q.sent
                            THEN queue \cup {[id |-> nextMsg, body |-> jsonMarshal(m), vt |-> now]}
                            ELSE queue
                /\ nextMsg' = IF q.sent THEN nextMsg + 1 ELSE nextMsg
                /\ req' = [req EXCEPT ![r] =
                              Finished([slot EXCEPT !.sendFailed = (q.err # ""),
                                                    !.held = @ \cup HeldByEnvelope,
                                                    !.audits = @ + 1], resp)]
                /\ issued' = IF resp.Status = "success"
                             THEN issued @@ (slot.hash :>
                                    [data |-> slot.data, dataType |-> slot.dataType,
                                     org |-> slot.org, ork |-> slot.ork,
                                     expiresAt |-> slot.expiresAt, createdAt |-> now,
                                     ct |-> ct, iv |-> iv])
                             ELSE issued
    /\ UNCHANGED <<now, tekCache, pgmqNil, redisOn, tekRows, piiRows, cache, worker,
                   nextRef, nextTek, boot, svc, mig>>

\* a retrieval that writes the record it found in the table into the cache
DetokenizeBeginPromotes(r, reference, purpose, service, org, ork, up) ==
    /\ Delivered
    /\ FreeSlot(r)
    /\ boot.piiService = "created"
    /\ LET verr == validateDetokenizeRequest(reference, purpose, service, org)
            bad  == [IdleSlot EXCEPT !.op = "detokenize", !.valid = FALSE, !.tBegin = now,
                        !.held = HeldByRequest("", ork)]
            got  == RetrievePIIToken(up, hashOnly(reference), org)
            slot == [IdleSlot EXCEPT !.op = "detokenize", !.org = org, !.ork = ork,
                        !.hash = hashOnly(reference), !.tBegin = now, !.tier = got.tier,
                        !.held = HeldByRequest("", ork),
                        !.rec = got.resp, !.fault = (got.tier = "store" /\ ~up)]
        IN  IF verr # ""
            THEN /\ req' = [req EXCEPT ![r] = Finished(bad, ErrorResp(verr))]
                 /\ UNCHANGED cache
            ELSE IF ork = ""
            THEN /\ req' = [req EXCEPT ![r] = Finished(bad,
                                ErrorResp("organizationKey is required for decryption"))]
                 /\ UNCHANGED cache
            ELSE /\ cache' = IF redisOn /\ got.tier = "store" /\ got.resp.Status = "success"
                            THEN cacheToken(StoreRequest(got.resp.ReferenceHash,
                                    got.resp.EncryptedData, got.resp.Iv, got.resp.DataType,
                                    got.resp.ClientId, got.resp.OrganizationId,
                                    got.resp.CreatedAt, got.resp.ExpiresAt))
                            ELSE IF got.del THEN CacheDel(hashOnly(reference)) ELSE cache
                 /\ req' = [req EXCEPT ![r] =
                        IF got.resp.Status # "success"
                        THEN Finished(slot, ErrorResp("token not found"))
                        ELSE [slot EXCEPT !.pc = "fetched"]]
    /\ UNCHANGED <<now, tekCache, pgmqNil, redisOn, tekRows, piiRows, queue, worker,
                   nextRef, nextIv, nextTek, nextMsg, issued, boot, svc, mig>>

\* Detokenize, lines 165-197: validation, prefix, and the RetrievePIIToken call
DetokenizeBegin(r, reference, purpose, service, org, ork, up) ==
    /\ Delivered
    /\ FreeSlot(r)
    /\ boot.piiService = "created"
    /\ LET verr == validateDetokenizeRequest(reference, purpose, service, org)
            bad  == [IdleSlot EXCEPT !.op = "detokenize", !.valid = FALSE, !.tBegin = now,
                        !.held = HeldByRequest("", ork)]
            got  == RetrievePIIToken(up, hashOnly(reference), org)
            slot == [IdleSlot EXCEPT !.op = "detokenize", !.org = org, !.ork = ork,
                        !.hash = hashOnly(reference), !.tBegin = now, !.tier = got.tier,
                        !.held = HeldByRequest("", ork),
                        !.rec = got.resp, !.fault = (got.tier = "store" /\ ~up)]
        IN  IF verr # ""
            THEN /\ req' = [req EXCEPT ![r] = Finished(bad, ErrorResp(verr))]
                 /\ UNCHANGED cache
            ELSE IF ork = ""
            THEN /\ req' = [req EXCEPT ![r] = Finished(bad,
                                ErrorResp("organizationKey is required for decryption"))]
                 /\ UNCHANGED cache
            ELSE /\ cache' = IF got.del THEN CacheDel(hashOnly(reference)) ELSE cache
                 /\ req' = [req EXCEPT ![r] =
                        IF got.resp.Status # "success"
                        THEN Finished(slot, ErrorResp("token not found"))
                        ELSE [slot EXCEPT !.pc = "fetched"]]
    /\ UNCHANGED <<now, tekCache, pgmqNil, redisOn, tekRows, piiRows, queue, worker,
                   nextRef, nextIv, nextTek, nextMsg, issued, boot, svc, mig>>

\* Detokenize, lines 201-209, and decryptPIIWithEnvelope, lines 595-605: the
\* engine's own expiry check, the IV length check and the tekCache look-up
DetokenizeCheck(r) ==
    /\ Delivered
    /\ req[r].pc = "fetched"
    /\ LET slot == req[r]
       IN  IF now > slot.rec.ExpiresAt
           THEN /\ req' = [req EXCEPT ![r] = Finished(slot, ErrorResp("token has expired"))]
                /\ UNCHANGED tekCache
           ELSE IF slot.rec.Iv.len # IVLen
           THEN /\ req' = [req EXCEPT ![r] = Finished(slot, CryptError("detokenize"))]
                /\ UNCHANGED tekCache
           ELSE /\ tekCache' = TekCacheChecked(slot.rec.OrganizationId, slot.ork)
                /\ req' = [req EXCEPT ![r] =
                        IF TekCacheHit(slot.rec.OrganizationId, slot.ork)
                        THEN [slot EXCEPT !.pc = "crypt", !.tekSeen = "cached",
                                          !.tek = tekCache[slot.rec.OrganizationId]]
                        ELSE [slot EXCEPT !.pc = "retrieveTEK"]]
    /\ UNCHANGED <<now, pgmqNil, redisOn, tekRows, piiRows, cache, queue, worker,
                   nextRef, nextIv, nextTek, nextMsg, issued, boot, svc, mig>>

\* decryptPIIWithEnvelope, lines 607-639, and Detokenize, lines 218-243
DetokenizeFinish(r) ==
    /\ Delivered
    /\ req[r].pc = "crypt"
    /\ req[r].op = "detokenize"
    /\ LET slot == req[r]
           tek  == unwrapTEKWithKEK(slot.tek.EncryptedTEK)
           key  == deriveKeyWithHKDF(slot.ork, tek.pt)
           o    == GcmOpen(key, slot.rec.Iv, slot.rec.EncryptedData)
       IN  req' = [req EXCEPT ![r] =
                IF ~tek.ok
                THEN Finished(slot, CryptError("detokenize"))
                ELSE IF ~o.ok
                THEN Finished([slot EXCEPT !.held = @ \cup HeldByEnvelope],
                              CryptError("detokenize"))
                ELSE Finished([slot EXCEPT !.held = @ \cup HeldByEnvelope \cup {"plaintext"},
                                           !.audits = @ + 1],
                              Resp("success", "", <<>>, "", 0, o.pt, slot.rec.DataType,
                                   slot.rec.CreatedAt, TRUE))]
    /\ UNCHANGED <<now, tekCache, pgmqNil, redisOn, tekRows, piiRows, cache, queue, worker,
                   nextRef, nextIv, nextTek, nextMsg, issued, boot, svc, mig>>

\* the response goes to the caller and the slot is free again
Return(r) ==
    /\ req[r].pc = "done"
    /\ req' = [req EXCEPT ![r] = IdleSlot]
    /\ UNCHANGED <<now, tekCache, pgmqNil, redisOn, tekRows, piiRows, cache, queue, worker,
                   nextRef, nextIv, nextTek, nextMsg, issued, boot, svc, mig>>

(* ------------------------------ workers ------------------------------- *)
RECURSIVE ById(_)
ById(S) ==
    IF S = {} THEN <<>>
    ELSE LET m == CHOOSE x \in S : \A y \in S : x.id <= y.id
         IN  <<m>> \o ById(S \ {m})

\* a handle that never closes
PgmqOpenForever == TRUE

\* a statement on s.db or s.pgmqDB runs only while Close has not closed the
\* handle (lines 111-116); on a closed handle it fails at once
DbOpen == svc.db = "open"
PgmqOpen == svc.pgmqDB = "open"

\* pgmq.read(queue, 300, 10): the visible messages, oldest first
Readable == {m \in queue : m.vt <= now}
ReadBatchOf(S) == SubSeq(ById(S), 1, IF Cardinality(S) < ReadBatch THEN Cardinality(S) ELSE ReadBatch)
InBatch(b, m) == \E i \in 1..Len(b) : b[i].id = m.id

\* processMessages, lines 156-166: one read; the messages read become
\* invisible for the visibility timeout (a failed read changes nothing)
WorkerRead(w) ==
    /\ Delivered
    /\ w \in svc.workers
    /\ PgmqOpen
    /\ worker[w] = <<>>
    /\ Readable # {}
    /\ LET b == ReadBatchOf(Readable)
       IN  /\ worker' = [worker EXCEPT ![w] = [i \in 1..Len(b) |->
                                [id |-> b[i].id, body |-> b[i].body, stored |-> FALSE]]]
           /\ queue' = {IF InBatch(b, m) THEN [m EXCEPT !.vt = now + VisibilityTimeout] ELSE m
                          : m \in queue}
    /\ UNCHANGED <<now, req, tekCache, pgmqNil, redisOn, tekRows, piiRows, cache,
                   nextRef, nextIv, nextTek, nextMsg, issued, boot, svc, mig>>

\* a worker that deletes the message of a failed upsert
WorkerStoreDropOnFailure(w, up) ==
    /\ Delivered
    /\ worker[w] # <<>>
    /\ ~worker[w][1].stored
    /\ LET m == worker[w][1]
           u == jsonUnmarshal(m.body)
       IN  IF ~u.ok \/ ~up
           THEN /\ queue' = {x \in queue : x.id # m.id}
                /\ worker' = [worker EXCEPT ![w] = Tail(@)]
                /\ UNCHANGED <<piiRows, cache>>
           ELSE /\ piiRows' = UpsertRow(u.v)
                /\ cache' = IF redisOn THEN cacheToken(u.v) ELSE cache
                /\ worker' = [worker EXCEPT ![w][1].stored = TRUE]
                /\ UNCHANGED queue
    /\ UNCHANGED <<now, req, tekCache, pgmqNil, redisOn, tekRows,
                   nextRef, nextIv, nextTek, nextMsg, issued, boot, svc, mig>>

\* processMessages, lines 177-187, with storePIIToken: unmarshal and upsert the
\* row, then cache it; a poison message is deleted, a failed upsert skipped
WorkerStore(w, up) ==
    /\ Delivered
    /\ worker[w] # <<>>
    /\ ~worker[w][1].stored
    /\ LET m == worker[w][1]
           u == jsonUnmarshal(m.body)
       IN  IF ~u.ok
           THEN /\ queue' = IF up /\ PgmqOpen THEN {x \in queue : x.id # m.id} ELSE queue
                /\ worker' = [worker EXCEPT ![w] = Tail(@)]
                /\ UNCHANGED <<piiRows, cache>>
           ELSE IF ~(up /\ DbOpen)
           THEN /\ worker' = [worker EXCEPT ![w] = Tail(@)]
                /\ UNCHANGED <<piiRows, cache, queue>>
           ELSE /\ piiRows' = UpsertRow(u.v)
                /\ cache' = IF redisOn THEN cacheToken(u.v) ELSE cache
                /\ worker' = [worker EXCEPT ![w][1].stored = TRUE]
                /\ UNCHANGED queue
    /\ UNCHANGED <<now, req, tekCache, pgmqNil, redisOn, tekRows,
                   nextRef, nextIv, nextTek, nextMsg, issued, boot, svc, mig>>

\* a delete that answers without removing the message
WorkerDeleteKeeps(w, up) ==
    /\ Delivered
    /\ worker[w] # <<>>
    /\ worker[w][1].stored
    /\ queue' = queue
    /\ worker' = [worker EXCEPT ![w] = Tail(@)]
    /\ UNCHANGED <<now, req, tekCache, pgmqNil, redisOn, tekRows, piiRows, cache,
                   nextRef, nextIv, nextTek, nextMsg, issued, boot, svc, mig>>

\* processMessages, lines 189-193, with deleteMessage
WorkerDelete(w, up) ==
    /\ Delivered
    /\ worker[w] # <<>>
    /\ worker[w][1].stored
    /\ queue' = IF up /\ PgmqOpen THEN {x \in queue : x.id # worker[w][1].id} ELSE queue
    /\ worker' = [worker EXCEPT ![w] = Tail(@)]
    /\ UNCHANGED <<now, req, tekCache, pgmqNil, redisOn, tekRows, piiRows, cache,
                   nextRef, nextIv, nextTek, nextMsg, issued, boot, svc, mig>>

\* the persistence service is stopped between storePIIToken and
\* deleteMessage (lines 184-189) and started again: the batch the worker had
\* read is gone, its messages stay in the queue, invisible until their
\* visibility timeout runs out
WorkerStop(w) ==
    /\ Delivered
    /\ worker[w] # <<>>
    /\ worker[w][1].stored
    /\ worker' = [worker EXCEPT ![w] = <<>>]
    /\ UNCHANGED <<now, req, tekCache, pgmqNil, redisOn, tekRows, piiRows, cache, queue,
                   nextRef, nextIv, nextTek, nextMsg, issued, boot, svc, mig>>

\* worker, lines 144-148: between two batches the goroutine finds stopCh
\* closed, leaves its loop and returns
WorkerExit(w) ==
    /\ Delivered
    /\ w \in svc.workers
    /\ worker[w] = <<>>
    /\ svc.stopCh = "closed"
    /\ svc' = [svc EXCEPT !.workers = @ \ {w}]
    /\ UNCHANGED <<now, req, tekCache, pgmqNil, redisOn, tekRows, piiRows, cache, queue,
                   worker, nextRef, nextIv, nextTek, nextMsg, issued, boot, mig>>

(* -------------------------------- Close ------------------------------- *)
\* Close, line 108: close(s.stopCh), the one call of Close
CloseStopCh ==
    /\ Delivered
    /\ svc.stopCh = "open"
    /\ svc' = [svc EXCEPT !.stopCh = "closed"]
    /\ UNCHANGED <<now, req, tekCache, pgmqNil, redisOn, tekRows, piiRows, cache, queue,
                   worker, nextRef, nextIv, nextTek, nextMsg, issued, boot, mig>>

\* Close, lines 111-113: s.db.Close()
CloseDb ==
    /\ Delivered
    /\ svc.stopCh = "closed"
    /\ svc.db = "open"
    /\ svc' = [svc EXCEPT !.db = "closed"]
    /\ UNCHANGED <<now, req, tekCache, pgmqNil, redisOn, tekRows, piiRows, cache, queue,
                   worker, nextRef, nextIv, nextTek, nextMsg, issued, boot, mig>>

\* Close, lines 114-127: s.pgmqDB.Close(), the Redis client closed, and the
\* return
ClosePgmqDB ==
    /\ Delivered
    /\ svc.db = "closed"
    /\ svc.pgmqDB = "open"
    /\ svc' = [svc EXCEPT !.pgmqDB = "closed", !.closeReturned = TRUE]
    /\ UNCHANGED <<now, req, tekCache, pgmqNil, redisOn, tekRows, piiRows, cache, queue,
                   worker, nextRef, nextIv, nextTek, nextMsg, issued, boot, mig>>

(* --------------------- the StorePIIToken endpoint --------------------- *)
\* pb.StorePIITokenResponse
StoreResp(status, msg, hash) == Resp(status, msg, hash, "", 0, "", "", 0, FALSE)

\* StorePIIToken, lines 327-343, with storePIIToken up to its upsert, lines
\* 209-256: a gRPC caller stores a record directly.  The caller holds the
\* record Tokenize built for the reference and sends it with a data type and
\* a nonce length of its choosing; nothing in storePIIToken looks at either.
\* The request waits in the slot (as a record) for the cache write.
StorePIITokenUpsert(r, hash, dataType, clientId, org, ivLen, up) ==
    /\ Delivered
    /\ req[r].pc = "idle"
    /\ hash \in DOMAIN issued
    /\ LET m    == StoreRequest(hash, issued[hash].ct, [len |-> ivLen, n |-> issued[hash].iv.n],
                                dataType, clientId, org, issued[hash].createdAt,
                                issued[hash].expiresAt)
           slot == [IdleSlot EXCEPT !.op = "store", !.hash = hash, !.tBegin = now,
                       !.rec = PIIResp("request", "", m.ReferenceHash, m.EncryptedData, m.Iv,
                                       m.DataType, m.ClientId, m.OrganizationId, m.CreatedAt,
                                       m.ExpiresAt)]
       IN  IF ~up
           THEN /\ req' = [req EXCEPT ![r] =
                    Finished([slot EXCEPT !.fault = TRUE],
                             StoreResp("error", "Failed to store token", hash))]
                /\ UNCHANGED piiRows
           ELSE /\ piiRows' = UpsertRow(m)
                /\ req' = [req EXCEPT ![r] =
                    IF redisOn THEN [slot EXCEPT !.pc = "cacheToken"]
                    ELSE Finished(slot, StoreResp("success", "", hash))]
    /\ UNCHANGED <<now, tekCache, pgmqNil, redisOn, tekRows, cache, queue, worker,
                   nextRef, nextIv, nextTek, nextMsg, issued, boot, svc, mig>>

\* storePIIToken, lines 258-269: the cache write that follows the upsert (its
\* error is only logged), and the answer of the endpoint
StorePIITokenCache(r) ==
    /\ Delivered
    /\ req[r].pc = "cacheToken"
    /\ LET slot == req[r]
           m    == StoreRequest(slot.rec.ReferenceHash, slot.rec.EncryptedData, slot.rec.Iv,
                                slot.rec.DataType, slot.rec.ClientId, slot.rec.OrganizationId,
                                slot.rec.CreatedAt, slot.rec.ExpiresAt)
       IN  /\ cache' = cacheToken(m)
           /\ req' = [req EXCEPT ![r] = Finished(slot, StoreResp("success", "", slot.hash))]
    /\ UNCHANGED <<now, tekCache, pgmqNil, redisOn, tekRows, piiRows, queue, worker,
                   nextRef, nextIv, nextTek, nextMsg, issued, boot, svc, mig>>

(* --------------------------- the purge job ---------------------------- *)
\* a purge that also takes the rows that expire at this very instant
cleanupExpiredTokensInclusive ==
    [h \in {x \in DOMAIN piiRows : ~(piiRows[x].expires_at <= now)} |-> piiRows[h]]

\* DELETE FROM pii_tokens WHERE expires_at < NOW(): the rows that stay
cleanup_expired_tokens ==
    [h \in {x \in DOMAIN piiRows : ~(piiRows[x].expires_at < now)} |-> piiRows[h]]

\* the scheduled job calls cleanup_expired_tokens(), at any moment
CleanupExpiredTokens ==
    /\ Delivered
    /\ piiRows' = cleanup_expired_tokens
    /\ UNCHANGED <<now, req, tekCache, pgmqNil, redisOn, tekRows, cache, queue, worker,
                   nextRef, nextIv, nextTek, nextMsg, issued, boot, svc, mig>>

(* ----------------------------- migrations ----------------------------- *)
\* file names are strings of ASCII codes
SqlSuffix == <<46, 115, 113, 108>>                   \* ".sql"
File1   == <<49>> \o SqlSuffix                       \* "1.sql"
File10  == <<49, 48>> \o SqlSuffix                   \* "10.sql"
File2   == <<50>> \o SqlSuffix                       \* "2.sql"
Readme  == <<50, 46, 109, 100>>                      \* "2.md"
\* what the migrations directory may hold: files and a directory
DirEntries == {[name |-> File1, isDir |-> FALSE], [name |-> File10, isDir |-> FALSE],
               [name |-> File2, isDir |-> FALSE], [name |-> Readme, isDir |-> FALSE],
               [name |-> <<51>> \o SqlSuffix, isDir |-> TRUE]}

\* strings.HasSuffix and strings.TrimSuffix
HasSuffix(str, suffix) ==
    Len(str) >= Len(suffix) /\ SubSeq(str, Len(str) - Len(suffix) + 1, Len(str)) = suffix
TrimSuffix(str, suffix) ==
    IF HasSuffix(str, suffix) THEN SubSeq(str, 1, Len(str) - Len(suffix)) ELSE str

\* the order of Go strings: byte by byte, a proper prefix first
StringLess(a, b) ==
    \E k \in 1..Len(b) :
        /\ k <= Len(a) + 1
        /\ \A j \in 1..(k - 1) : a[j] = b[j]
        /\ k = Len(a) + 1 \/ a[k] < b[k]

\* an order that puts the greatest name first
RECURSIVE sortStringsDescending(_)
sortStringsDescending(S) ==
    IF S = {} THEN <<>>
    ELSE LET top == CHOOSE x \in S : \A y \in S \ {x} : StringLess(y, x)
         IN  <<top>> \o sortStringsDescending(S \ {top})

\* sort.Strings, line 94
RECURSIVE sortStrings(_)
sortStrings(S) ==
    IF S = {} THEN <<>>
    ELSE LET least == CHOOSE x \in S : \A y \in S \ {x} : StringLess(x, y)
         IN  <<least>> \o sortStrings(S \ {least})

\* GetPendingMigrations, lines 66-97: the .sql files of the directory whose
\* version is not in schema_migrations, sorted by name
GetPendingMigrations ==
    sortStrings({e.name : e \in {d \in mig.dir : /\ ~d.isDir
                                                  /\ HasSuffix(d.name, SqlSuffix)
                                                  /\ TrimSuffix(d.name, SqlSuffix)
                                                        \notin mig.schema_migrations}})

\* the file ApplyMigration is working on
Current(m) == mig.run[m].pending[Len(mig.run[m].applied) + 1]

\* MigrateUp, lines 138-156: the table is created if missing and the pending
\* migrations are listed; any of the calls may fail
MigrateUpBegin(m, up) ==
    /\ mig.run[m].pc = "start"
    /\ mig' = [mig EXCEPT !.run[m] =
            IF ~up THEN [@ EXCEPT !.pc = "failed"]
            ELSE IF GetPendingMigrations = <<>> THEN [@ EXCEPT !.pc = "done"]
            ELSE [@ EXCEPT !.pc = "apply", !.pending = GetPendingMigrations]]
    /\ UNCHANGED <<now, req, tekCache, pgmqNil, redisOn, tekRows, piiRows, cache, queue,
                   worker, nextRef, nextIv, nextTek, nextMsg, issued, boot, svc>>

\* ApplyMigration, lines 100-119: the file is read, a transaction begun and
\* the file's statements executed in it
ApplyMigrationExec(m, up) ==
    /\ mig.run[m].pc = "apply"
    /\ mig.run[m].tx = "none"
    /\ mig' = [mig EXCEPT !.run[m] =
            IF up THEN [@ EXCEPT !.tx = "executed"] ELSE [@ EXCEPT !.pc = "failed"]]
    /\ UNCHANGED <<now, req, tekCache, pgmqNil, redisOn, tekRows, piiRows, cache, queue,
                   worker, nextRef, nextIv, nextTek, nextMsg, issued, boot, svc>>

\* ApplyMigration, lines 121-125: the version is inserted in the same
\* transaction; the insert waits while another transaction holds the same
\* version uncommitted and fails on a version already there (primary key)
ApplyMigrationRecord(m, up) ==
    /\ mig.run[m].tx = "executed"
    /\ \A o \in Migrators \ {m} : ~(mig.run[o].tx = "recorded" /\ Current(o) = Current(m))
    /\ mig' = [mig EXCEPT !.run[m] =
            IF up /\ TrimSuffix(Current(m), SqlSuffix) \notin mig.schema_migrations
            THEN [@ EXCEPT !.tx = "recorded"]
            ELSE [@ EXCEPT !.pc = "failed", !.tx = "none"]]
    /\ UNCHANGED <<now, req, tekCache, pgmqNil, redisOn, tekRows, piiRows, cache, queue,
                   worker, nextRef, nextIv, nextTek, nextMsg, issued, boot, svc>>

\* ApplyMigration, lines 127-134, and the loop of MigrateUp, lines 158-167:
\* the commit makes the statements and the version durable together; a failed
\* commit rolls both back and ends the run
ApplyMigrationCommit(m, up) ==
    /\ mig.run[m].tx = "recorded"
    /\ IF up
       THEN mig' = [mig EXCEPT
                !.schema_migrations = @ \cup {TrimSuffix(Current(m), SqlSuffix)},
                !.statements = Append(@, Current(m)),
                !.run[m] = [@ EXCEPT !.applied = Append(@, Current(m)),
                                     !.tx = "none",
                                     !.pc = IF Len(mig.run[m].applied) + 1 = Len(mig.run[m].pending)
                                            THEN "done" ELSE "apply"]]
       ELSE mig' = [mig EXCEPT !.run[m] = [@ EXCEPT !.pc = "failed", !.tx = "none"]]
    /\ UNCHANGED <<now, req, tekCache, pgmqNil, redisOn, tekRows, piiRows, cache, queue,
                   worker, nextRef, nextIv, nextTek, nextMsg, issued, boot, svc>>

(* ------------------------------- main --------------------------------- *)
\* main with NewPIIService, lines 38-45: the KEK provider is built from
\* KEK_BASE64; on its error main ends the process with log.Fatalf, else the
\* service is created and registered
NewPIIService ==
    /\ boot.piiService = "nil"
    /\ boot' = [boot EXCEPT !.piiService =
                    IF NewStaticKEKProvider(boot.KEKBase64).err # "" THEN "exited" ELSE "created"]
    /\ UNCHANGED <<now, req, tekCache, pgmqNil, redisOn, tekRows, piiRows, cache, queue,
                   worker, nextRef, nextIv, nextTek, nextMsg, issued, svc, mig>>

(* ------------------------------- clock -------------------------------- *)
(* ------------------------ the StoreTEK endpoint ------------------------ *)
\* StoreTEK, lines 592-622, called by a client other than this engine (a
\* second instance of the PII service, an operator's rotation): the record is
\* saved over the organization's row; nothing reaches the tekCache of the
\* engine
StoreTEK(r, org, orgKey, up) ==
    /\ Delivered
    /\ req[r].pc = "idle"
    /\ nextTek <= MaxTEKs
    /\ LET tekRecord == [OrganizationID |-> org, EncryptedTEK |-> wrapTEKWithKEK(nextTek),
                         OrgKeyHash |-> sha256hex(orgKey), Version |-> 1]
           slot == [IdleSlot EXCEPT !.op = "storeTEK", !.org = org, !.tBegin = now,
                                    !.tek = tekRecord]
       IN  IF up
           THEN /\ tekRows' = saveTEKToDatabase(tekRecord)
                /\ req' = [req EXCEPT ![r] = Finished(slot, StoreResp("success", "", <<>>))]
           ELSE /\ req' = [req EXCEPT ![r] =
                            Finished([slot EXCEPT !.fault = TRUE],
                                     StoreResp("error", "failed to save TEK to database", <<>>))]
                /\ UNCHANGED tekRows
    /\ nextTek' = nextTek + 1
    /\ UNCHANGED <<now, tekCache, pgmqNil, redisOn, piiRows, cache, queue, worker,
                   nextRef, nextIv, nextMsg, issued, boot, svc, mig>>

ClockTick ==
    /\ Delivered
    /\ (now - T0) \div Jump = MaxJumps
    /\ (now - T0) % Jump < MaxTicks
    /\ now' = now + 1
    /\ UNCHANGED <<req, tekCache, pgmqNil, redisOn, tekRows, piiRows, cache, queue, worker,
                   nextRef, nextIv, nextTek, nextMsg, issued, boot, svc, mig>>

ClockJump ==
    /\ Delivered
    /\ (now - T0) \div Jump < MaxJumps
    /\ now' = now + Jump
    /\ UNCHANGED <<req, tekCache, pgmqNil, redisOn, tekRows, piiRows, cache, queue, worker,
                   nextRef, nextIv, nextTek, nextMsg, issued, boot, svc, mig>>

\* one request at a time, in slot 1
Next ==
    \/ \E r \in Reqs : Return(r)
    \/ \E data \in DataInputs, dataType \in DataTypeInputs, clientId \in ClientIds,
          org \in Orgs, ork \in OrkInputs, policy \in Policies :
            nextRef <= MaxRefs /\ TokenizeBegin(1, data, dataType, clientId, org, ork, policy)
    \/ \E reference \in RefInputs, purpose \in Purposes, service \in Services,
          org \in Orgs, ork \in OrkInputs, up \in BOOLEAN :
            DetokenizeBegin(1, reference, purpose, service, org, ork, up)
    \/ \E up \in BOOLEAN : RetrieveTEKStep(1, up)
    \/ \E up \in BOOLEAN : StoreTEKStep(1, up)
    \/ \E up \in BOOLEAN : TokenizeFinish(1, up)
    \/ DetokenizeCheck(1)
    \/ DetokenizeFinish(1)
    \/ \E w \in Workers : WorkerRead(w)
    \/ \E w \in Workers, up \in BOOLEAN : WorkerStore(w, up)
    \/ \E w \in Workers, up \in BOOLEAN : WorkerDelete(w, up)
    \/ ClockTick
    \/ ClockJump

Spec == Init /\ [][Next]_vars

\* tokenisations of one organization, NumReqs of them at the same time, every
\* remote call succeeding
RaceNext ==
    \/ \E r \in Reqs : Return(r)
    \/ \E r \in Reqs, data \in Plaintexts, ork \in Orks :
            nextRef <= RaceRefs /\ TokenizeBegin(r, data, "email", "c1", "acme", ork, "1day")
    \/ \E r \in Reqs : RetrieveTEKStep(r, TRUE)
    \/ \E r \in Reqs : StoreTEKStep(r, TRUE)
    \/ \E r \in Reqs : TokenizeFinish(r, TRUE)
    \/ \E w \in Workers : WorkerRead(w)
    \/ \E w \in Workers : WorkerStore(w, TRUE)
    \/ \E w \in Workers : WorkerDelete(w, TRUE)

SpecRace == Init /\ [][RaceNext]_vars

\* one request at a time in slot 1, every field of the request empty or not,
\* every remote call succeeding, the clock standing still
InputNext ==
    \/ \E r \in Reqs : Return(r)
    \/ \E data \in DataInputs, dataType \in TypeInputs, clientId \in ClientInputs,
          org \in OrgInputs, ork \in OrkInputs, policy \in PolicyInputs :
            nextRef <= MaxRefs /\ TokenizeBegin(1, data, dataType, clientId, org, ork, policy)
    \/ \E reference \in RefChoices, purpose \in PurposeInputs, service \in ServiceInputs,
          org \in OrgInputs, ork \in OrkInputs :
            DetokenizeBegin(1, reference, purpose, service, org, ork, TRUE)
    \/ RetrieveTEKStep(1, TRUE)
    \/ StoreTEKStep(1, TRUE)
    \/ TokenizeFinish(1, TRUE)
    \/ DetokenizeCheck(1)
    \/ DetokenizeFinish(1)
    \/ \E w \in Workers : WorkerRead(w)
    \/ \E w \in Workers : WorkerStore(w, TRUE)
    \/ \E w \in Workers : WorkerDelete(w, TRUE)

SpecInputs == Init /\ [][InputNext]_vars

\* the nonce lengths and data types a caller of StorePIIToken may send
IvLenInputs == {IVLen, 16}
StoreTypeInputs == {"email", "ssn"}

\* one tokenisation and its owner's Detokenize calls in slot 1, the worker,
\* and calls of the StorePIIToken endpoint in slot 2 at the same time; every
\* remote call succeeding, the clock standing still
StoreNext ==
    \/ \E r \in Reqs : Return(r)
    \/ nextRef <= MaxRefs /\ TokenizeBegin(1, "p1", "email", "c1", "acme", "s3cret", "1day")
    \/ DetokenizeBegin(1, TokRef(1), "support", "crm", "acme", "s3cret", TRUE)
    \/ RetrieveTEKStep(1, TRUE)
    \/ StoreTEKStep(1, TRUE)
    \/ TokenizeFinish(1, TRUE)
    \/ DetokenizeCheck(1)
    \/ DetokenizeFinish(1)
    \/ \E w \in Workers : WorkerRead(w)
    \/ \E w \in Workers : WorkerStore(w, TRUE)
    \/ \E w \in Workers : WorkerDelete(w, TRUE)
    \/ \E hash \in {HashStr(n) : n \in Hashes}, dataType \in StoreTypeInputs,
          clientId \in ClientIds, org \in Orgs, ivLen \in IvLenInputs :
            StorePIITokenUpsert(2, hash, dataType, clientId, org, ivLen, TRUE)
    \/ StorePIITokenCache(2)

SpecStore == Init /\ [][StoreNext]_vars

\* a message that json.Unmarshal refuses, left in the queue by another producer
PoisonMessage == [id |-> 1, body |-> <<"garbage", 0>>, vt |-> T0]

\* the service starts on a queue that holds a poison message
InitPoison ==
    /\ now = T0
    /\ req = [r \in Reqs |-> IdleSlot]
    /\ tekCache = <<>>
    /\ pgmqNil = FALSE
    /\ redisOn \in BOOLEAN
    /\ tekRows = <<>>
    /\ piiRows = <<>>
    /\ cache = <<>>
    /\ queue = {PoisonMessage}
    /\ worker = [w \in Workers |-> <<>>]
    /\ nextRef = 1
    /\ nextIv = 1
    /\ nextTek = 1
    /\ nextMsg = 2
    /\ issued = <<>>
    /\ boot = Serving(ValidKEKBase64)
    /\ svc = Started
    /\ mig = Migrations({})

\* one tokenisation whose calls succeed, the worker with upserts and deletes
\* that may fail, and the clock
QueueNext ==
    \/ \E r \in Reqs : Return(r)
    \/ \E data \in Plaintexts, policy \in Policies :
            nextRef <= MaxRefs /\ TokenizeBegin(1, data, "email", "c1", "acme", "s3cret", policy)
    \/ RetrieveTEKStep(1, TRUE)
    \/ StoreTEKStep(1, TRUE)
    \/ TokenizeFinish(1, TRUE)
    \/ \E w \in Workers : WorkerRead(w)
    \/ \E w \in Workers, up \in BOOLEAN : WorkerStore(w, up)
    \/ \E w \in Workers, up \in BOOLEAN : WorkerDelete(w, up)
    \/ ClockTick
    \/ ClockJump

SpecQueue == InitPoison /\ [][QueueNext]_vars

\* requests of one organization, one at a time in slot 1, the worker, and
\* StoreTEK calls of another client for an organization that has a record
\* (rotations) in slot 2; every remote call succeeding, the clock standing still
RotateNext ==
    \/ \E r \in Reqs : Return(r)
    \/ \E data \in Plaintexts :
            nextRef <= RaceRefs /\ TokenizeBegin(1, data, "email", "c1", "acme", "s3cret", "1day")
    \/ \E n \in 1..RaceRefs :
            DetokenizeBegin(1, TokRef(n), "support", "crm", "acme", "s3cret", TRUE)
    \/ RetrieveTEKStep(1, TRUE)
    \/ StoreTEKStep(1, TRUE)
    \/ TokenizeFinish(1, TRUE)
    \/ DetokenizeCheck(1)
    \/ DetokenizeFinish(1)
    \/ \E w \in Workers : WorkerRead(w)
    \/ \E w \in Workers : WorkerStore(w, TRUE)
    \/ \E w \in Workers : WorkerDelete(w, TRUE)
    \/ \E org \in Orgs, ork \in Orks :
            org \in DOMAIN tekRows /\ StoreTEK(2, org, ork, TRUE)

SpecRotate == Init /\ [][RotateNext]_vars

\* the process starts with any value of KEK_BASE64
InitBoot ==
    /\ now = T0
    /\ req = [r \in Reqs |-> IdleSlot]
    /\ tekCache = <<>>
    /\ pgmqNil \in BOOLEAN
    /\ redisOn \in BOOLEAN
    /\ tekRows = <<>>
    /\ piiRows = <<>>
    /\ cache = <<>>
    /\ queue = {}
    /\ worker = [w \in Workers |-> <<>>]
    /\ nextRef = 1
    /\ nextIv = 1
    /\ nextTek = 1
    /\ nextMsg = 1
    /\ issued = <<>>
    /\ boot \in {Starting(e) : e \in KekInputs}
    /\ svc = Started
    /\ mig = Migrations({})

\* main, then requests one at a time in slot 1 and the worker, every remote
\* call succeeding, the clock standing still
BootNext ==
    \/ NewPIIService
    \/ \E r \in Reqs : Return(r)
    \/ \E data \in DataInputs, ork \in OrkInputs :
            nextRef <= MaxRefs /\ TokenizeBegin(1, data, "email", "c1", "acme", ork, "1day")
    \/ \E reference \in RefChoices, ork \in OrkInputs :
            DetokenizeBegin(1, reference, "support", "crm", "acme", ork, TRUE)
    \/ RetrieveTEKStep(1, TRUE)
    \/ StoreTEKStep(1, TRUE)
    \/ TokenizeFinish(1, TRUE)
    \/ DetokenizeCheck(1)
    \/ DetokenizeFinish(1)
    \/ \E w \in Workers : WorkerRead(w)
    \/ \E w \in Workers : WorkerStore(w, TRUE)
    \/ \E w \in Workers : WorkerDelete(w, TRUE)

SpecBoot == InitBoot /\ [][BootNext]_vars

\* one tokenisation and its owner's Detokenize calls in slot 1, every remote
\* call succeeding; the worker, which may be stopped between upsert and
\* delete as long as the clock has not made its jump; the clock
RedeliverNext ==
    \/ \E r \in Reqs : Return(r)
    \/ \E data \in Plaintexts :
            nextRef <= MaxRefs /\ TokenizeBegin(1, data, "email", "c1", "acme", "s3cret", "1day")
    \/ DetokenizeBegin(1, TokRef(1), "support", "crm", "acme", "s3cret", TRUE)
    \/ RetrieveTEKStep(1, TRUE)
    \/ StoreTEKStep(1, TRUE)
    \/ TokenizeFinish(1, TRUE)
    \/ DetokenizeCheck(1)
    \/ DetokenizeFinish(1)
    \/ \E w \in Workers : WorkerRead(w)
    \/ \E w \in Workers : WorkerStore(w, TRUE)
    \/ \E w \in Workers : WorkerDelete(w, TRUE)
    \/ \E w \in Workers : now < T0 + Jump /\ WorkerStop(w)
    \/ ClockTick
    \/ ClockJump

\* every worker runs processMessages on each tick of its one-second ticker
\* (lines 141-151), time passes, and a response reaches its caller
RedeliverFair ==
    /\ \A w \in Workers :
        /\ SF_vars(WorkerRead(w))
        /\ SF_vars(WorkerStore(w, TRUE))
        /\ SF_vars(WorkerDelete(w, TRUE))
    /\ \A r \in Reqs : WF_vars(Return(r))
    /\ SF_vars(ClockJump)

SpecRedeliver == Init /\ [][RedeliverNext]_vars /\ RedeliverFair

\* one tokenisation under any retention policy and Detokenize calls of both
\* organizations in slot 1, every call of a request succeeding; the worker,
\* whose delete may fail; the clock; and the purge job at any moment
PurgeNext ==
    \/ \E r \in Reqs : Return(r)
    \/ \E policy \in Policies :
            nextRef <= MaxRefs /\ TokenizeBegin(1, "p1", "email", "c1", "acme", "s3cret", policy)
    \/ \E org \in Orgs : DetokenizeBegin(1, TokRef(1), "support", "crm", org, "s3cret", TRUE)
    \/ RetrieveTEKStep(1, TRUE)
    \/ StoreTEKStep(1, TRUE)
    \/ TokenizeFinish(1, TRUE)
    \/ DetokenizeCheck(1)
    \/ DetokenizeFinish(1)
    \/ \E w \in Workers : WorkerRead(w)
    \/ \E w \in Workers : WorkerStore(w, TRUE)
    \/ \E w \in Workers, up \in BOOLEAN : WorkerDelete(w, up)
    \/ ClockTick
    \/ ClockJump
    \/ CleanupExpiredTokens

SpecPurge == Init /\ [][PurgeNext]_vars

\* the service starts on a queue that holds a poison message; one
\* tokenisation, whose calls to the persistence service succeed while its
\* storage handle is open; the workers; and one call of Close at any moment
CloseNext ==
    \/ \E r \in Reqs : Return(r)
    \/ \E data \in Plaintexts :
            nextRef <= MaxRefs /\ TokenizeBegin(1, data, "email", "c1", "acme", "s3cret", "1day")
    \/ RetrieveTEKStep(1, DbOpen)
    \/ StoreTEKStep(1, DbOpen)
    \/ TokenizeFinish(1, TRUE)
    \/ \E w \in Workers : WorkerRead(w)
    \/ \E w \in Workers : WorkerStore(w, TRUE)
    \/ \E w \in Workers : WorkerDelete(w, TRUE)
    \/ \E w \in Workers : WorkerExit(w)
    \/ CloseStopCh
    \/ CloseDb
    \/ ClosePgmqDB

\* Close runs to its return once called; a worker finishes the batch it has
\* read; the select of lines 144-150 picks among its ready cases at random,
\* so a worker that finds stopCh closed again and again takes that case; a
\* response reaches its caller
CloseFair ==
    /\ WF_vars(CloseDb)
    /\ WF_vars(ClosePgmqDB)
    /\ \A w \in Workers :
        /\ WF_vars(WorkerStore(w, TRUE))
        /\ WF_vars(WorkerDelete(w, TRUE))
        /\ SF_vars(WorkerExit(w))
    /\ \A r \in Reqs : WF_vars(Return(r))

SpecClose == InitPoison /\ [][CloseNext]_vars /\ CloseFair

\* the storage database starts with any migrations directory
InitMigrate ==
    /\ now = T0
    /\ req = [r \in Reqs |-> IdleSlot]
    /\ tekCache = <<>>
    /\ pgmqNil \in BOOLEAN
    /\ redisOn \in BOOLEAN
    /\ tekRows = <<>>
    /\ piiRows = <<>>
    /\ cache = <<>>
    /\ queue = {}
    /\ worker = [w \in Workers |-> <<>>]
    /\ nextRef = 1
    /\ nextIv = 1
    /\ nextTek = 1
    /\ nextMsg = 1
    /\ issued = <<>>
    /\ boot = Serving(ValidKEKBase64)
    /\ svc = Started
    /\ mig \in {Migrations(dir) : dir \in SUBSET DirEntries}

\* instances of the persistence service run MigrateUp on the same database,
\* one after another or at the same time; any call may fail
MigrateNext ==
    \/ \E m \in Migrators, up \in BOOLEAN : MigrateUpBegin(m, up)
    \/ \E m \in Migrators, up \in BOOLEAN : ApplyMigrationExec(m, up)
    \/ \E m \in Migrators, up \in BOOLEAN : ApplyMigrationRecord(m, up)
    \/ \E m \in Migrators, up \in BOOLEAN : ApplyMigrationCommit(m, up)

SpecMigrate == InitMigrate /\ [][MigrateNext]_vars

(* ----------------------------- properties ----------------------------- *)
\* slot r holds the response of a finished request of kind op
Done(r, op) == req[r].pc = "done" /\ req[r].op = op

\* slot r holds the response of a Detokenize that passed validation and asked
\* for a reference some Tokenize returned
DetokenizedIssued(r) ==
    Done(r, "detokenize") /\ req[r].valid /\ req[r].hash \in DOMAIN issued

\* the caller's NOT_FOUND
NotFound(resp) == resp.Status = "error" /\ resp.ErrorMessage = "token not found"

\* C1 (as claimed): a Detokenize with the organization and ORK of the
\* Tokenize that returned the reference, after the worker stored the record,
\* no later than expires_at, served within one instant and with no failing
\* call, answers success with the plaintext and the data type given to that
\* Tokenize.
C1_RoundTrip ==
    \A r \in Reqs :
        ( /\ DetokenizedIssued(r)
          /\ req[r].org = issued[req[r].hash].org
          /\ req[r].ork = issued[req[r].hash].ork
          /\ req[r].hash \in DOMAIN piiRows
          /\ now <= issued[req[r].hash].expiresAt
          /\ req[r].tBegin = now
          /\ ~req[r].fault )
        => /\ req[r].resp.Status = "success"
           /\ req[r].resp.Data = issued[req[r].hash].data
           /\ req[r].resp.DataType = issued[req[r].hash].dataType

\* C2: a Detokenize that presents an ORK other than the one the reference was
\* tokenised under answers an error and carries no plaintext.
C2_WrongOrk ==
    \A r \in Reqs :
        (DetokenizedIssued(r) /\ req[r].ork # issued[req[r].hash].ork)
        => req[r].resp.Status = "error" /\ req[r].resp.Data = ""

\* C2 happens: the record was fetched for its owner, the TEK was resolved and
\* the open under the wrong ORK was refused
C2_Witness ==
    \E r \in Reqs :
        /\ DetokenizedIssued(r)
        /\ req[r].ork # issued[req[r].hash].ork
        /\ req[r].rec.Status = "success"
        /\ req[r].tekSeen # ""
        /\ req[r].resp.ErrorMessage = "failed to decrypt PII data - invalid organization key"

C4_TEKStable ==
    [][\A o \in DOMAIN tekRows : o \in DOMAIN tekRows' /\ tekRows'[o] = tekRows[o]]_vars

\* C5 (as claimed): a Tokenize whose RetrieveTEK found an active row with
\* another ork_hash answers an error without a reference, and tekCache does
\* not hold the TEK record this call made.
C5_OrkVerification ==
    \A r \in Reqs :
        (Done(r, "tokenize") /\ req[r].tekSeen = "mismatch")
        => /\ req[r].resp.Status = "error"
           /\ req[r].resp.ReferenceHash = <<>>
           /\ ~(req[r].org \in DOMAIN tekCache /\ tekCache[req[r].org] = req[r].tek)

\* the stored record of reference h opens, under the ORK it was tokenised
\* with and the organization's TEK row, to the plaintext given to Tokenize
Decryptable(h) ==
    /\ issued[h].org \in DOMAIN tekRows
    /\ LET row == tekRows[issued[h].org]
           tek == unwrapTEKWithKEK(row.encrypted_tek)
           o   == GcmOpen(deriveKeyWithHKDF(issued[h].ork, tek.pt), issued[h].iv, issued[h].ct)
       IN  /\ row.is_active
           /\ verifyOrganizationKey(issued[h].ork, row.org_key_hash)
           /\ tek.ok /\ o.ok /\ o.pt = issued[h].data

\* C6 (as claimed): when two Tokenize calls of one organization under one ORK
\* have both returned a reference (in SpecRace no other call reaches the TEK),
\* the organization's one TEK row is the first writer's, version 1, and both
\* records open under it.
C6_CreationRace ==
    \A h1, h2 \in DOMAIN issued :
        (h1 # h2 /\ issued[h1].org = issued[h2].org /\ issued[h1].ork = issued[h2].ork)
        => /\ issued[h1].org \in DOMAIN tekRows
           /\ tekRows[issued[h1].org].version = 1
           /\ Decryptable(h1) /\ Decryptable(h2)

\* C7: once now > expires_at, the cache does not answer with the record, the
\* table does not, RetrievePIIToken does not, and a Detokenize begun then
\* answers NOT_FOUND.
C7_Expiry ==
    /\ \A h \in DOMAIN cache, o \in Orgs :
        (CacheLive(h) /\ jsonUnmarshal(cache[h].data).ok
            /\ now > TimeUnix(jsonUnmarshal(cache[h].data).v.expires_at))
        => retrieveFromCache(h, o).err # ""
    /\ \A h \in DOMAIN piiRows, o \in Orgs, up \in BOOLEAN :
        now > piiRows[h].expires_at
        => /\ retrieveFromDatabase(up, h, o).Status # "success"
           /\ RetrievePIIToken(up, h, o).resp.Status # "success"
    /\ \A r \in Reqs :
        (DetokenizedIssued(r) /\ req[r].tBegin > issued[req[r].hash].expiresAt)
        => NotFound(req[r].resp)

\* C7 happens: the owner asked for a stored record after its expires_at and
\* was told NOT_FOUND
C7_Witness ==
    \E r \in Reqs :
        /\ DetokenizedIssued(r)
        /\ req[r].org = issued[req[r].hash].org
        /\ req[r].ork = issued[req[r].hash].ork
        /\ req[r].hash \in DOMAIN piiRows
        /\ req[r].tBegin > piiRows[req[r].hash].expires_at
        /\ ~req[r].fault
        /\ NotFound(req[r].resp)

\* C8 (as claimed): when Tokenize answers success and Redis is configured,
\* the record is in the cache.
C8_WriteThrough ==
    \A r \in Reqs :
        (Done(r, "tokenize") /\ req[r].resp.Status = "success" /\ redisOn)
        => CacheLive(req[r].hash)

\* the queue holds a message for reference h
Queued(h) == \E m \in queue : jsonUnmarshal(m.body).ok /\ jsonUnmarshal(m.body).v.ReferenceHash = h

\* C9 (as claimed, in the form a finite run refutes): a record whose Tokenize
\* answered success is a row of pii_tokens or has its message in the queue;
\* a record that is neither can never become a row.
C9_Durable ==
    \A h \in DOMAIN issued : h \in DOMAIN piiRows \/ Queued(h)

\* C10 (as claimed): a Tokenize whose pgmq.send failed answers an error.
C10_FailFast ==
    \A r \in Reqs :
        (Done(r, "tokenize") /\ req[r].sendFailed)
        => req[r].resp.Status = "error"

\* the fields of a pii_tokens row that the claim of idempotence names
RowContents(row) ==
    <<row.encrypted_data, row.iv, row.data_type, row.client_id, row.organization_id,
      row.expires_at>>

NeverCreatedResp == ErrorResp("token not found")

\* C12 (as claimed): a Detokenize under a wrong ORK, for a record that exists,
\* was fetched for its owner and passed the engine's expiry check, answers,
\* with no failing call, exactly what a Detokenize of a reference never
\* created answers.
C12_NoOracle ==
    \A r \in Reqs :
        ( /\ DetokenizedIssued(r)
          /\ req[r].org = issued[req[r].hash].org
          /\ req[r].ork # issued[req[r].hash].ork
          /\ req[r].rec.Status = "success"
          /\ req[r].tekSeen # ""
          /\ ~req[r].fault
          /\ now <= issued[req[r].hash].expiresAt )
        => req[r].resp = NeverCreatedResp

\* C13 (as claimed): a Detokenize of the owner whose record was fetched and
\* then found expired by the engine's own check (the expiry instant fell
\* between the retrieval and the check) answers exactly what a Detokenize of
\* a reference never created answers.
C13_NoExpiryLeak ==
    \A r \in Reqs :
        ( /\ DetokenizedIssued(r)
          /\ req[r].rec.Status = "success"
          /\ req[r].tekSeen = ""
          /\ req[r].rec.Iv.len = IVLen
          /\ now > req[r].rec.ExpiresAt )
        => req[r].resp = NeverCreatedResp

\* C14 (as claimed): a Tokenize that answers success has called logAuditEvent
\* exactly once, and so has a Detokenize that located the record and either
\* answered success or failed to decrypt it.
C14_Audit ==
    \A r \in Reqs :
        /\ (Done(r, "tokenize") /\ req[r].resp.Status = "success") => req[r].audits = 1
        /\ ( /\ Done(r, "detokenize")
             /\ req[r].rec.Status = "success"
             /\ \/ req[r].resp.Status = "success"
                \/ req[r].resp = CryptError("detokenize") )
           => req[r].audits = 1

\* the secrets a caller may present
Secrets == (Orks \cup Plaintexts \cup DataInputs) \ {""}

\* C19 (as claimed): no ORK and no plaintext is in what a finished request
\* wrote to the log output, nor, as it was given, in a field of a row, of a
\* cache entry, of a queue message or of the TEK cache.
C19_NoSecretKept ==
    /\ \A r \in Reqs : req[r].pc = "done" => req[r].stdout \cap Secrets = {}
    /\ \A h \in DOMAIN piiRows : piiRows[h].encrypted_data \notin Secrets
    /\ \A o \in DOMAIN tekRows : tekRows[o].org_key_hash \notin Secrets
    /\ \A o \in DOMAIN tekCache : tekCache[o].OrgKeyHash \notin Secrets
    /\ \A m \in queue : jsonUnmarshal(m.body).v.EncryptedData \notin Secrets
    /\ \A h \in DOMAIN cache :
            base64Decode(jsonUnmarshal(cache[h].data).v.encrypted_data).v \notin Secrets

\* C20 (as claimed): when a Tokenize or a Detokenize returns, none of its
\* buffers for the ORK, the unwrapped TEK, the derived key and the plaintext
\* still holds its secret.
C20_Zeroised ==
    \A r \in Reqs : req[r].pc = "done" => req[r].held = {}

\* C17 (as claimed): whatever RetrievePIIToken returns for a record, from the
\* cache or from the table, its created_at plus the retention duration is its
\* expires_at (every policy of Policies lasts as long as "1day").
C17_Retention ==
    \A h \in DOMAIN issued, up \in BOOLEAN :
        LET got == RetrievePIIToken(up, h, issued[h].org).resp
        IN  got.Status = "success"
            => got.CreatedAt + getRetentionDuration("1day") = got.ExpiresAt

\* what no side effect means: no TEK drawn, stored or cached, no reference or
\* nonce drawn, no queue message, no cache or table entry
NoSideEffect ==
    UNCHANGED <<tekCache, tekRows, nextTek, nextRef, nextIv, queue, nextMsg, cache, piiRows,
                issued>>

\* the step is the first of a request of kind op in slot r
BeginsIn(r, op) == req[r].pc = "idle" /\ req'[r].pc # "idle" /\ req'[r].op = op

\* the Tokenize requests the claim calls invalid
InvalidTokenize(data, dataType, clientId, org, ork) ==
    data = "" \/ dataType \notin ValidTypes \/ clientId = "" \/ org = "" \/ ork = ""

\* C15: a Tokenize with empty data, a data type outside the six, an empty
\* client_id, an empty organization_id or an empty ORK is over at once: it
\* answers an error without a reference, has called logAuditEvent not once,
\* and has created or cached no TEK and written no queue message, cache
\* entry or row.
C15_TokenizeValidation ==
    [][BeginsIn(1, "tokenize") =>
        \A data \in DataInputs, dataType \in TypeInputs, clientId \in ClientInputs,
           org \in OrgInputs, ork \in OrkInputs, policy \in PolicyInputs :
            ( /\ InvalidTokenize(data, dataType, clientId, org, ork)
              /\ TokenizeBegin(1, data, dataType, clientId, org, ork, policy) )
            => /\ req'[1].pc = "done"
               /\ req'[1].resp.Status = "error"
               /\ req'[1].resp.ErrorMessage # ""
               /\ req'[1].resp.ReferenceHash = <<>>
               /\ req'[1].audits = 0
               /\ NoSideEffect]_vars

\* C15 happens: a Tokenize of an unknown data type, with data and an ORK
\* given, was refused
C15_Witness ==
    /\ Done(1, "tokenize")
    /\ ~req[1].valid
    /\ req[1].resp = ErrorResp("invalid dataType")
    /\ req[1].held = {"plaintext", "ork"}

\* the Detokenize requests the claim calls invalid
InvalidDetokenize(reference, purpose, service, org, ork) ==
    reference = <<>> \/ purpose = "" \/ service = "" \/ org = "" \/ ork = ""

\* C16: a Detokenize with an empty reference, purpose, requesting_service,
\* organization_id or ORK is over at once: it answers an error, has retrieved
\* no record (nor dropped a cache entry on the way), has resolved no TEK and
\* has called logAuditEvent not once.
C16_DetokenizeValidation ==
    [][BeginsIn(1, "detokenize") =>
        \A reference \in RefChoices, purpose \in PurposeInputs, service \in ServiceInputs,
          org \in OrgInputs, ork \in OrkInputs :
            ( /\ InvalidDetokenize(reference, purpose, service, org, ork)
              /\ DetokenizeBegin(1, reference, purpose, service, org, ork, TRUE) )
            => /\ req'[1].pc = "done"
               /\ req'[1].resp.Status = "error"
               /\ req'[1].resp.ErrorMessage \notin {"", "token not found"}
               /\ req'[1].rec = NoRec
               /\ req'[1].tier = ""
               /\ req'[1].tekSeen = ""
               /\ req'[1].audits = 0
               /\ NoSideEffect]_vars

\* C16 happens: the record is stored and cached, and a Detokenize that gave
\* no purpose was refused
C16_Witness ==
    /\ Done(1, "detokenize")
    /\ ~req[1].valid
    /\ req[1].resp = ErrorResp("purpose field is required")
    /\ piiRows # <<>>
    /\ cache # <<>>

\* the retention table of the claim, in hours
RetentionHours(policy) ==
    IF policy = "1day" THEN 24
    ELSE IF policy = "7days" THEN 168
    ELSE IF policy = "30days" THEN 720
    ELSE IF policy = "1year" THEN 8760
    ELSE IF policy = "7years" THEN 61320
    ELSE 24

C21_AADBinding ==
    \A r \in Reqs :
        ( /\ DetokenizedIssued(r)
          /\ req[r].ork = issued[req[r].hash].ork
          /\ req[r].rec.Status = "success"
          /\ req[r].rec.Iv.len = IVLen
          /\ now <= req[r].rec.ExpiresAt
          /\ \/ req[r].rec.DataType # issued[req[r].hash].dataType
             \/ req[r].rec.OrganizationId # issued[req[r].hash].org )
        => req[r].resp = CryptError("detokenize")

\* C22 (as claimed): every record in a queue message, in the cache and in
\* pii_tokens has a nonce of IVLen bytes, and whatever RetrievePIIToken
\* returns has one.
C22_IvLength ==
    /\ \A m \in queue : jsonUnmarshal(m.body).v.Iv.len = IVLen
    /\ \A h \in DOMAIN cache :
            base64Decode(jsonUnmarshal(cache[h].data).v.iv).v.len = IVLen
    /\ \A h \in DOMAIN piiRows : piiRows[h].iv.len = IVLen
    /\ \A h \in DOMAIN piiRows, o \in Orgs :
            RetrievePIIToken(TRUE, h, o).resp.Status = "success"
            => RetrievePIIToken(TRUE, h, o).resp.Iv.len = IVLen

\* no store operation is running: no call of the endpoint, no worker batch
NoStoreRunning ==
    /\ \A r \in Reqs : req[r].op # "store"
    /\ \A w \in Workers : worker[w] = <<>>

\* C30 (as claimed): once the store operations for a reference have all
\* finished, its cache entry holds what its row holds, the contents of the
\* upsert applied last.
C30_NewestWins ==
    NoStoreRunning
    => \A h \in DOMAIN cache \cap DOMAIN piiRows :
         LET e == jsonUnmarshal(cache[h].data).v
         IN  /\ base64Decode(e.encrypted_data).v = piiRows[h].encrypted_data
             /\ base64Decode(e.iv).v = piiRows[h].iv
             /\ e.data_type = piiRows[h].data_type
             /\ e.client_id = piiRows[h].client_id
             /\ e.expires_at = Unix(piiRows[h].expires_at)

\* slot r answers a Tokenize with success in this step
TokenizeSucceeds(r) ==
    /\ req[r].pc # "done"
    /\ req'[r].pc = "done"
    /\ req'[r].op = "tokenize"
    /\ req'[r].resp.Status = "success"

StoreTEKSucceeds(r) ==
    /\ req[r].pc = "storeTEK"
    /\ req'[r].pc = "crypt"

\* C25: organization_teks holds one record per organization and it is
\* active; the record of an organization that had none is stored with
\* version 1; every StoreTEK that succeeds for an organization that has a
\* record increases its version by exactly 1; the version changes in no
\* other way and no record disappears.
C25_Versioning ==
    /\ [](\A o \in DOMAIN tekRows : tekRows[o].is_active /\ tekRows[o].version >= 1)
    /\ [][ /\ \A o \in DOMAIN tekRows :
                /\ o \in DOMAIN tekRows'
                /\ tekRows'[o] # tekRows[o] => tekRows'[o].version = tekRows[o].version + 1
           /\ \A o \in DOMAIN tekRows' :
                o \notin DOMAIN tekRows
                => tekRows'[o].version = 1 /\ tekRows'[o].is_active
           /\ \A r \in Reqs :
                (StoreTEKSucceeds(r) /\ req[r].org \in DOMAIN tekRows)
                => tekRows'[req[r].org].version = tekRows[req[r].org].version + 1 ]_vars

\* C25 happens: a request has just had StoreTEK succeed for an organization
\* whose record was created at version 1 and is now at version 2
C25_Witness ==
    \E r \in Reqs :
        /\ req[r].pc = "crypt"
        /\ req[r].tekSeen \in {"mismatch", "dberror"}
        /\ req[r].org \in DOMAIN tekRows
        /\ tekRows[req[r].org].version = 2

\* the msg_ids in the queue
QueueIds == {m.id : m \in queue}

\* worker w gives up the message at the head of its batch in this step
\* because the upsert failed
UpsertFails(w) ==
    /\ worker[w] # <<>>
    /\ ~worker[w][1].stored
    /\ jsonUnmarshal(worker[w][1].body).ok
    /\ worker'[w] = Tail(worker[w])

\* C28: a message leaves the queue only in a step of a worker that has it at
\* the head of its batch and either upserted it before (its row exists with
\* the ciphertext of the message) or cannot unmarshal it; a failed upsert
\* leaves the queue and the table as they were and drops the message from
\* the batch, so it is not tried again in the same loop; and no message is
\* invisible for longer than the visibility timeout, so it becomes readable
\* again.
C28_DeletionOrder ==
    /\ [](\A m \in queue : m.vt <= now + VisibilityTimeout)
    /\ [][ /\ \A m \in queue :
                m.id \notin {x.id : x \in queue'}
                => \E w \in Workers :
                        /\ worker[w] # <<>>
                        /\ worker[w][1].id = m.id
                        /\ worker'[w] = Tail(worker[w])
                        /\ LET u == jsonUnmarshal(m.body)
                           IN  IF u.ok
                               THEN /\ worker[w][1].stored
                                    /\ u.v.ReferenceHash \in DOMAIN piiRows
                                    /\ piiRows[u.v.ReferenceHash].encrypted_data = u.v.EncryptedData
                               ELSE ~worker[w][1].stored
           /\ \A w \in Workers :
                UpsertFails(w)
                => /\ queue' = queue
                   /\ piiRows' = piiRows
                   /\ cache' = cache
                   /\ \A i \in 1..Len(worker'[w]) : worker'[w][i].id # worker[w][1].id ]_vars

\* C28 happens: the poison message has been deleted, and the message of a
\* record whose upsert failed is readable again after the visibility
\* timeout, its record not being a row
C28_Witness ==
    /\ PoisonMessage.id \notin QueueIds
    /\ \E m \in Readable :
        /\ m.vt > T0
        /\ jsonUnmarshal(m.body).ok
        /\ jsonUnmarshal(m.body).v.ReferenceHash \notin DOMAIN piiRows
    /\ \A w \in Workers : worker[w] = <<>>

\* C27 (as claimed): whatever requests with other ORKs came before, a
\* Detokenize that presents the organization and ORK of the Tokenize that
\* returned the reference, and that got the unexpired record as that
\* Tokenize sealed it, answers success with the plaintext.
C27_WrongKeyHarmless ==
    \A r \in Reqs :
        ( /\ DetokenizedIssued(r)
          /\ req[r].org = issued[req[r].hash].org
          /\ req[r].ork = issued[req[r].hash].ork
          /\ req[r].rec.Status = "success"
          /\ req[r].rec.EncryptedData = issued[req[r].hash].ct
          /\ req[r].rec.Iv = issued[req[r].hash].iv
          /\ now <= req[r].rec.ExpiresAt )
        => /\ req[r].resp.Status = "success"
           /\ req[r].resp.Data = issued[req[r].hash].data

\* slot r takes its TEK from tekCache in this step
TakesCachedTEK(r) ==
    /\ req[r].tekSeen # "cached"
    /\ req'[r].tekSeen = "cached"

\* C24 (as claimed): a Tokenize or Detokenize that takes its TEK from the
\* in-memory cache takes the TEK of the organization's record in
\* organization_teks as it is at that moment, never one that a StoreTEK has
\* replaced since.
C24_RotationInvalidates ==
    [][\A r \in Reqs :
        TakesCachedTEK(r)
        => /\ req'[r].tek.OrganizationID \in DOMAIN tekRows
           /\ req'[r].tek.EncryptedTEK = tekRows[req'[r].tek.OrganizationID].encrypted_tek]_vars

\* KEK_BASE64 is unset, is not base64, or decodes to other than 32 bytes
BadKEKConfig ==
    \/ boot.KEKBase64 = <<>>
    \/ boot.KEKBase64[1] # "b64"
    \/ boot.KEKBase64[2].len # KEKLen

\* no request was ever taken: no slot is in use and the engine left no trace
NothingServed ==
    /\ \A r \in Reqs : req[r] = IdleSlot
    /\ tekCache = <<>>
    /\ tekRows = <<>>
    /\ queue = {}
    /\ issued = <<>>
    /\ nextRef = 1

\* C26: with KEK_BASE64 missing, not valid base64, or not of exactly 32
\* bytes, the construction of the service fails: the process never gets a
\* service, ends at NewPIIService, and no request is ever served.
C26_KEKConfig ==
    /\ [](BadKEKConfig => (boot.piiService # "created" /\ NothingServed))
    /\ [][(BadKEKConfig /\ boot.piiService = "nil" /\ boot'.piiService # "nil")
            => boot'.piiService = "exited"]_vars
    /\ [][boot'.KEKBase64 = boot.KEKBase64]_vars

\* C26 happens: main has ended the process for a KEK_BASE64 that is base64 of
\* a key one byte short
C26_Witness ==
    /\ boot.piiService = "exited"
    /\ boot.KEKBase64 = KekOfLen(31)

\* the message with msg_id id is in the queue, its record is a row, and no
\* worker holds it: the worker that upserted it was stopped before the delete
StoppedBeforeDelete(id) ==
    /\ \E m \in queue :
        /\ m.id = id
        /\ jsonUnmarshal(m.body).ok
        /\ jsonUnmarshal(m.body).v.ReferenceHash \in DOMAIN piiRows
    /\ \A w \in Workers : worker[w] = <<>>

\* a worker has read the message with msg_id id again and upserted it
UpsertedAgain(id) ==
    \E w \in Workers :
        /\ worker[w] # <<>>
        /\ worker[w][1].id = id
        /\ worker[w][1].stored

StoresForOtherOrg(r, h) ==
    /\ req[r].pc = "idle"
    /\ req'[r].op = "store"
    /\ req'[r].hash = h
    /\ req'[r].rec.OrganizationId # piiRows[h].organization_id

\* C31 (as claimed): a store operation that carries another organization
\* than the one of the existing row of its reference leaves the ciphertext,
\* iv, data_type and expires_at of that row as they were; and once no store
\* operation is running the cache entry and the row of a reference name the
\* same organization.
C31_Ownership ==
    /\ [][\A r \in Reqs : \A h \in DOMAIN piiRows :
            StoresForOtherOrg(r, h)
            => /\ piiRows'[h].encrypted_data = piiRows[h].encrypted_data
               /\ piiRows'[h].iv = piiRows[h].iv
               /\ piiRows'[h].data_type = piiRows[h].data_type
               /\ piiRows'[h].expires_at = piiRows[h].expires_at]_vars
    /\ [](NoStoreRunning
            => \A h \in DOMAIN cache \cap DOMAIN piiRows :
                 jsonUnmarshal(cache[h].data).v.organization_id = piiRows[h].organization_id)

\* slot r missed the TEK cache and is filling it: its RetrieveTEK or its
\* StoreTEK is under way
Filling(r) == req[r].pc \in {"retrieveTEK", "storeTEK"}

\* C32 (as claimed): of the requests of one organization that missed the TEK
\* cache, one at a time performs the fill (RetrieveTEK and, at most, one
\* StoreTEK); the others wait for its result.
C32_SingleFill ==
    \A r1, r2 \in Reqs :
        (r1 # r2 /\ Filling(r1) /\ Filling(r2))
        => req[r1].org # req[r2].org

\* C33: every TEK record that getOrCreateTEK hands to the envelope code,
\* whether taken from tekCache, answered by RetrieveTEK or newly created,
\* carries the SHA-256 of the ORK presented in that request; and RetrieveTEK
\* answers with a wrapped TEK only for an ORK whose hash is the one stored
\* in the organization's row, and then with the TEK of that row.
C33_KeyHandle ==
    /\ \A r \in Reqs :
        req[r].pc = "crypt"
        => /\ req[r].tekSeen \in {"cached", "match", "absent", "mismatch", "dberror"}
           /\ req[r].tek.OrgKeyHash = sha256hex(req[r].ork)
    /\ \A org \in Orgs, ork \in Orks :
        LET resp == RetrieveTEK(TRUE, org, ork)
        IN  IF org \in DOMAIN tekRows /\ tekRows[org].org_key_hash = sha256hex(ork)
            THEN /\ resp.Status = "success"
                 /\ resp.tek.EncryptedTEK = tekRows[org].encrypted_tek
                 /\ resp.tek.OrgKeyHash = sha256hex(ork)
            ELSE /\ resp.Status = "error"
                 /\ resp.tek = NoTEK

\* C33 happens: a request that missed the empty TEK cache got from
\* RetrieveTEK the record another request created meanwhile under the same ORK
C33_Witness ==
    \E r \in Reqs :
        /\ req[r].pc = "crypt"
        /\ req[r].tekSeen = "match"
        /\ req[r].tek.EncryptedTEK = tekRows[req[r].org].encrypted_tek

\* a store operation writes the cache in this step: a worker's storePIIToken
\* or the cache write of a StorePIIToken call
StorePathStep ==
    \/ \E w \in Workers :
        /\ worker[w] # <<>>
        /\ ~worker[w][1].stored
        /\ worker'[w] # <<>>
        /\ worker'[w][1].stored
    \/ \E r \in Reqs : req[r].pc = "cacheToken" /\ req'[r].pc = "done"

\* C34: RetrievePIIToken never inserts or refreshes a cache entry: the step
\* of a Detokenize that calls it leaves every cache entry as it was or
\* removes it, and leaves the whole cache unchanged when the cache had no
\* live entry for the reference and the table answered; a cache entry
\* appears or changes only in a step of the store path.
C34_NoPromotion ==
    [][ /\ \A r \in Reqs :
            BeginsIn(r, "detokenize")
            => /\ \A h \in DOMAIN cache' : h \in DOMAIN cache /\ cache'[h] = cache[h]
               /\ (req'[r].tier = "store" /\ ~CacheLive(req'[r].hash)) => cache' = cache
        /\ (\E h \in DOMAIN cache' : h \notin DOMAIN cache \/ cache'[h] # cache[h])
            => StorePathStep ]_vars

\* C34 happens: with Redis configured, a Detokenize got the record from the
\* table while the cache has no entry for its reference
C34_Witness ==
    \E r \in Reqs :
        /\ req[r].op = "detokenize"
        /\ req[r].tier = "store"
        /\ req[r].rec.Status = "success"
        /\ redisOn
        /\ req[r].hash \in DOMAIN piiRows
        /\ req[r].hash \notin DOMAIN cache

\* the live cache entry of reference h is one the claim calls corrupted for
\* a request of organization org
CorruptedFor(h, org) ==
    LET e == jsonUnmarshal(cache[h].data).v
    IN  \/ e.organization_id # org
        \/ ~base64Decode(e.encrypted_data).ok
        \/ ~base64Decode(e.iv).ok
        \/ base64Decode(e.iv).v.len # IVLen

\* C35 (as claimed): a RetrievePIIToken that finds a live cache entry with a
\* wrong IV length, undecodable base64 or another organization than the
\* request's deletes the entry and goes on to the table.
C35_CorruptedCache ==
    [][\A r \in Reqs :
        ( /\ BeginsIn(r, "detokenize")
          /\ req'[r].valid
          /\ redisOn
          /\ CacheLive(req'[r].hash)
          /\ jsonUnmarshal(cache[req'[r].hash].data).ok
          /\ CorruptedFor(req'[r].hash, req'[r].org) )
        => /\ req'[r].tier = "store"
           /\ req'[r].hash \notin DOMAIN cache']_vars

\* C36: a cache entry is written with a TTL of expires_at minus now, which is
\* positive: an entry that appears or changes in a step runs out at the
\* expires_at of the record stored in that step, later than now; and a cache
\* read answers with an entry only while that entry's record is unexpired.
C36_CacheTTL ==
    /\ [][\A h \in DOMAIN cache' :
            (h \notin DOMAIN cache \/ cache'[h] # cache[h])
            => /\ h \in DOMAIN piiRows'
               /\ cache'[h].evictAt = piiRows'[h].expires_at
               /\ cache'[h].evictAt - now > 0]_vars
    /\ [](\A h \in DOMAIN cache, org \in Orgs :
            retrieveFromCache(h, org).err = ""
            => /\ now < cache[h].evictAt
               /\ now <= retrieveFromCache(h, org).resp.ExpiresAt
               /\ retrieveFromCache(h, org).resp.ExpiresAt <= piiRows[h].expires_at)

\* C36 happens: with Redis configured a worker has just stored a record
\* whose expires_at has passed, and the cache has no entry for it
C36_Witness ==
    \E w \in Workers :
        /\ redisOn
        /\ worker[w] # <<>>
        /\ worker[w][1].stored
        /\ LET h == jsonUnmarshal(worker[w][1].body).v.ReferenceHash
           IN  /\ h \in DOMAIN piiRows
               /\ piiRows[h].expires_at <= now
               /\ h \notin DOMAIN cache

\* the purge deletes a row in this step
Purges == DOMAIN piiRows' # DOMAIN piiRows /\ DOMAIN piiRows' \subseteq DOMAIN piiRows

\* C37: the purge, run at any moment between the steps of retrievals, never
\* changes the outcome of a RetrievePIIToken or a Detokenize: every row it
\* deletes is one the table look-up already reports as expired to its
\* organization; for every reference and organization RetrievePIIToken
\* answers with the same status and, on success, the same record after the
\* purge as before it (for a purged row the error text turns from expired to
\* not found; Detokenize answers "token not found" for both); and a request
\* under way keeps the record it fetched.
C37_Purge ==
    [][Purges
        => /\ \A h \in DOMAIN piiRows \ DOMAIN piiRows' :
                retrieveFromDatabase(TRUE, h, piiRows[h].organization_id)
                    = PIIError(h, "Token has expired")
           /\ \A h \in DOMAIN piiRows' : piiRows'[h] = piiRows[h]
           /\ \A n \in Hashes, org \in Orgs :
                LET before == RetrievePIIToken(TRUE, HashStr(n), org)
                    after  == RetrievePIIToken(TRUE, HashStr(n), org)'
                IN  /\ after.resp.Status = before.resp.Status
                    /\ before.resp.Status = "success" => after = before
           /\ req' = req
           /\ cache' = cache ]_vars

\* C37 happens: the purge has deleted the row of a reference whose message
\* is still in the queue, and a Detokenize of its owner has answered since
C37_Witness ==
    \E h \in DOMAIN issued :
        /\ h \notin DOMAIN piiRows
        /\ issued[h].expiresAt < now
        /\ Queued(h)
        /\ \E w \in Workers : worker[w] = <<>>
        /\ \E r \in Reqs : DetokenizedIssued(r) /\ req[r].hash = h /\ req[r].tBegin = now

\* C38: once Close has been called, every worker goroutine eventually leaves
\* its polling loop and terminates, and no message leaves the queue in a step
\* taken after Close has returned.
C38_Shutdown ==
    /\ (svc.stopCh = "closed") ~> (svc.workers = {})
    /\ [][svc.closeReturned => {m.id : m \in queue} \subseteq {m.id : m \in queue'}]_vars

\* C38 happens: Close has returned while a worker held a message it had
\* stored; the worker has gone on, has terminated, and the message is still
\* in the queue
C38_Witness ==
    /\ svc.closeReturned
    /\ svc.workers = {}
    /\ \E h \in DOMAIN piiRows : Queued(h)

\* the first n elements of a sequence
Prefix(q, n) == SubSeq(q, 1, n)

\* C39: a run of MigrateUp applies its pending files in ascending order of
\* their names, one after another from the first; no file's statements are
\* committed twice; a version is in schema_migrations exactly when the
\* statements of its file are committed; and a run whose migration failed
\* applies nothing more.
C39_Migrations ==
    /\ [](/\ \A m \in Migrators :
                LET run == mig.run[m]
                IN  /\ Len(run.applied) <= Len(run.pending)
                    /\ run.applied = Prefix(run.pending, Len(run.applied))
                    /\ \A i, j \in 1..Len(run.pending) :
                            i < j => StringLess(run.pending[i], run.pending[j])
           /\ \A i, j \in 1..Len(mig.statements) :
                i # j => mig.statements[i] # mig.statements[j]
           /\ mig.schema_migrations
                = {TrimSuffix(mig.statements[k], SqlSuffix) : k \in 1..Len(mig.statements)})
    /\ [][\A m \in Migrators :
            mig.run[m].pc = "failed" => mig'.run[m] = mig.run[m]]_vars

\* C39 happens: one run has applied "1.sql" and "10.sql" and failed on
\* "2.sql"; another run has applied "2.sql" since
C39_Witness ==
    \E m, o \in Migrators :
        /\ mig.run[m].pc = "failed"
        /\ mig.run[m].pending = <<File1, File10, File2>>
        /\ mig.run[m].applied = <<File1, File10>>
        /\ mig.run[o].pc = "done"
        /\ mig.statements = <<File1, File10, File2>>

====
